---- MODULE Spec2Model ----
(***************************************************************************)
(* Model of the todo repository of sriniously/tasker                       *)
(* (apps/backend/internal/repository/todo.go): the table `todos` as the    *)
(* state, and one operator per repository method, translated from the SQL  *)
(* statement the method builds and the Go code around it.                  *)
(*                                                                         *)
(* An optional (pointer / nullable) value is a sequence of length <= 1:    *)
(* Nil is the nil pointer or SQL NULL, Ptr(v) a present value.  A text     *)
(* (title, description, search term) is a sequence of characters.          *)
(***************************************************************************)
EXTENDS Integers, Sequences, FiniteSets, TLC

(* ----------------------------- bounds ---------------------------------- *)

\* how many todos the store ever assigns an id to
MaxTodos == 2

\* the store clock runs over 1..MaxTime
MaxTime == 2

\* how many comments a todo gets
MaxComments == 2

(* ----------------------------- values ---------------------------------- *)

Nil == <<>>

Ptr(v) == <<v>>

Users == {"u1", "u2"}

StatusDraft == "draft"

StatusActive == "active"

StatusCompleted == "completed"

StatusArchived == "archived"

Statuses == {StatusDraft, StatusActive, StatusCompleted, StatusArchived}

PriorityLow == "low"

PriorityMedium == "medium"

PriorityHigh == "high"

Priorities == {PriorityLow, PriorityMedium, PriorityHigh}

Times == 1..MaxTime

\* ids the store can assign (uuids, never reused), and one that it never assigns
TodoIDs == 1..MaxTodos

AnyIDs == 1..(MaxTodos + 1)

Categories == {"c1"}

(* error kinds a repository method returns *)
NoError == "nil"

\* fmt.Errorf("failed to collect row ...: %w", pgx.ErrNoRows)
ErrNoRows == "pgx.ErrNoRows"

\* errs.NewNotFoundError("todo not found", false, &"TODO_NOT_FOUND")
ErrNotFound == "errs.NotFound"

\* errs.NewBadRequestError("no fields to update", ...)
ErrBadRequest == "errs.BadRequest"

\* fmt.Errorf("failed to ...: %w", err) around the context's error
ErrCanceled == "context.Canceled"

\* fmt.Errorf("failed to ...: %w", err) around an error of the SQL statement
ErrSQL == "pgconn.PgError"

\* a run-time panic: the call does not return
ErrPanic == "panic"

\* store:  the rows of table todos, by id
\* nextId: the next id the store assigns
\* now:    the clock (the store's NOW() and the server's time.Now())
\* last:   the latest call and what it returned
\* req:    the payload or query of the latest call, where a specification
\*         records it
\* scan:   the pages a caller has read so far while paging through a listing
\* comments: the rows of table todo_comments, by id
\* calls:  the calls in flight, where a specification runs calls concurrently
\* categories: the rows of table todo_categories, by id
\* prev:   the rows of table todos before the latest call, where a
\*         specification records them
VARIABLES store, nextId, now, last, req, scan, comments, calls, categories,
          prev

vars ==
  <<store, nextId, now, last, req, scan, comments, calls, categories, prev>>

(* ------------------------- the todos table ----------------------------- *)

\* column defaults of table todos, used by the INSERT for the columns it omits
DefaultStatus == StatusDraft

DefaultCompletedAt == Nil

Matching_IgnoreOwner(s, userID, todoID) ==
  {i \in DOMAIN s : i = todoID}

\* rows of s matching "id=@id AND user_id=@user_id"
Matching(s, userID, todoID) ==
  {i \in DOMAIN s : i = todoID /\ s[i].user_id = userID}

(* ----------------------------- CreateTodo ------------------------------ *)

CreatePriority_IgnorePayload(payload) == PriorityMedium

CreatePriority(payload) ==
  IF payload.priority # Nil THEN payload.priority[1] ELSE PriorityMedium

\* INSERT INTO todos (...) VALUES (...) RETURNING *, with id the store-assigned
\* id and t the store's NOW()
CreateTodoOp(s, id, t, userID, payload) ==
  LET row == [id             |-> id,
              user_id        |-> userID,
              title          |-> payload.title,
              description    |-> payload.description,
              status         |-> DefaultStatus,
              priority       |-> CreatePriority(payload),
              due_date       |-> payload.due_date,
              completed_at   |-> DefaultCompletedAt,
              parent_todo_id |-> payload.parent_todo_id,
              category_id    |-> payload.category_id,
              metadata       |-> payload.metadata,
              created_at     |-> t]
      s2 == [i \in DOMAIN s \cup {id} |-> IF i = id THEN row ELSE s[i]]
  IN [err |-> NoError, msg |-> "", data |-> Ptr(row), store |-> s2]

(* ----------------------- GetTodoByID / CheckTodoExists ----------------- *)

\* pgx.CollectOneRow over the rows of the WHERE clause
GetTodoByIDOp(s, userID, todoID) ==
  LET m == Matching(s, userID, todoID)
  IN IF m = {}
     THEN [err |-> ErrNoRows, msg |-> "failed to collect row from table:todos",
           data |-> Nil, store |-> s]
     ELSE [err |-> NoError, msg |-> "", data |-> Ptr(s[CHOOSE i \in m : TRUE]),
           store |-> s]

CheckTodoExistsOp(s, userID, todoID) ==
  LET m == Matching(s, userID, todoID)
  IN IF m = {}
     THEN [err |-> ErrNoRows, msg |-> "failed to collect row from table:todos",
           data |-> Nil, store |-> s]
     ELSE [err |-> NoError, msg |-> "", data |-> Ptr(s[CHOOSE i \in m : TRUE]),
           store |-> s]

(* ----------------------------- UpdateTodo ------------------------------ *)

\* a SET clause that writes NULL to due_date whatever the value
Clause_NullsDueDate(col, val) ==
  << <<col, IF col = "due_date" THEN Nil ELSE val>> >>

Clause(col, val) == << <<col, val>> >>

\* completed_at is set on completion and never cleared
SetClauses_NoClear(payload, t) ==
  (IF payload.title # Nil THEN Clause("title", payload.title[1]) ELSE <<>>)
  \o (IF payload.description # Nil
      THEN Clause("description", payload.description) ELSE <<>>)
  \o (IF payload.status # Nil
      THEN Clause("status", payload.status[1])
           \o (IF payload.status[1] = StatusCompleted
               THEN Clause("completed_at", Ptr(t))
               ELSE <<>>)
      ELSE <<>>)
  \o (IF payload.priority # Nil
      THEN Clause("priority", payload.priority[1]) ELSE <<>>)
  \o (IF payload.due_date # Nil
      THEN Clause("due_date", payload.due_date) ELSE <<>>)
  \o (IF payload.parent_todo_id # Nil
      THEN Clause("parent_todo_id", payload.parent_todo_id) ELSE <<>>)
  \o (IF payload.category_id # Nil
      THEN Clause("category_id", payload.category_id) ELSE <<>>)
  \o (IF payload.metadata # Nil
      THEN Clause("metadata", payload.metadata) ELSE <<>>)

\* description is written whether or not the payload carries it
SetClauses_WriteAbsent(payload, t) ==
  (IF payload.title # Nil THEN Clause("title", payload.title[1]) ELSE <<>>)
  \o Clause("description", payload.description)
  \o (IF payload.status # Nil
      THEN Clause("status", payload.status[1])
           \o (IF payload.status[1] = StatusCompleted
               THEN Clause("completed_at", Ptr(t))
               ELSE Clause("completed_at", Nil))
      ELSE <<>>)
  \o (IF payload.priority # Nil
      THEN Clause("priority", payload.priority[1]) ELSE <<>>)
  \o (IF payload.due_date # Nil
      THEN Clause("due_date", payload.due_date) ELSE <<>>)
  \o (IF payload.parent_todo_id # Nil
      THEN Clause("parent_todo_id", payload.parent_todo_id) ELSE <<>>)
  \o (IF payload.category_id # Nil
      THEN Clause("category_id", payload.category_id) ELSE <<>>)
  \o (IF payload.metadata # Nil
      THEN Clause("metadata", payload.metadata) ELSE <<>>)

\* the SET clauses with their bound values, in the order the code appends them;
\* t is time.Now()
SetClauses(payload, t) ==
  (IF payload.title # Nil THEN Clause("title", payload.title[1]) ELSE <<>>)
  \o (IF payload.description # Nil
      THEN Clause("description", payload.description) ELSE <<>>)
  \o (IF payload.status # Nil
      THEN Clause("status", payload.status[1])
           \o (IF payload.status[1] = StatusCompleted
               THEN Clause("completed_at", Ptr(t))
               ELSE Clause("completed_at", Nil))
      ELSE <<>>)
  \o (IF payload.priority # Nil
      THEN Clause("priority", payload.priority[1]) ELSE <<>>)
  \o (IF payload.due_date # Nil
      THEN Clause("due_date", payload.due_date) ELSE <<>>)
  \o (IF payload.parent_todo_id # Nil
      THEN Clause("parent_todo_id", payload.parent_todo_id) ELSE <<>>)
  \o (IF payload.category_id # Nil
      THEN Clause("category_id", payload.category_id) ELSE <<>>)
  \o (IF payload.metadata # Nil
      THEN Clause("metadata", payload.metadata) ELSE <<>>)

\* the SET list applied without its completed_at clause: the status is
\* written and the completion timestamp is left for a later write
RECURSIVE ApplySet_SkipsCompletedAt(_, _)
ApplySet_SkipsCompletedAt(row, clauses) ==
  IF clauses = <<>> THEN row
  ELSE IF Head(clauses)[1] = "completed_at"
  THEN ApplySet_SkipsCompletedAt(row, Tail(clauses))
  ELSE ApplySet_SkipsCompletedAt(
         [row EXCEPT ![Head(clauses)[1]] = Head(clauses)[2]], Tail(clauses))

\* UPDATE ... SET c1 = v1, c2 = v2, ... applied to one row
RECURSIVE ApplySet(_, _)
ApplySet(row, clauses) ==
  IF clauses = <<>> THEN row
  ELSE ApplySet([row EXCEPT ![Head(clauses)[1]] = Head(clauses)[2]],
                Tail(clauses))

\* the row is looked up before the payload is examined
UpdateTodoOp_LookupFirst(s, t, userID, payload) ==
  LET setClauses == SetClauses(payload, t)
      m == Matching(s, userID, payload.id)
  IN IF m = {}
     THEN [err |-> ErrNoRows, msg |-> "failed to collect row from table:todos",
           data |-> Nil, store |-> s]
     ELSE IF Len(setClauses) = 0
     THEN [err |-> ErrBadRequest, msg |-> "no fields to update",
           data |-> Nil, store |-> s]
     ELSE LET s2 == [i \in DOMAIN s |->
                       IF i \in m THEN ApplySet(s[i], setClauses) ELSE s[i]]
          IN [err |-> NoError, msg |-> "", data |-> Ptr(s2[payload.id]),
              store |-> s2]

\* the statement writes due_date from the payload whether or not the payload
\* carries it
UpdateTodoOp_WritesAbsentDueDate(s, t, userID, payload) ==
  LET setClauses == SetClauses(payload, t)
      m == Matching(s, userID, payload.id)
  IN IF Len(setClauses) = 0
     THEN [err |-> ErrBadRequest, msg |-> "no fields to update",
           data |-> Nil, store |-> s]
     ELSE IF m = {}
     THEN [err |-> ErrNoRows, msg |-> "failed to collect row from table:todos",
           data |-> Nil, store |-> s]
     ELSE LET s2 == [i \in DOMAIN s |->
                       IF i \in m
                       THEN ApplySet(s[i],
                                     setClauses
                                     \o Clause("due_date", payload.due_date))
                       ELSE s[i]]
          IN [err |-> NoError, msg |-> "", data |-> Ptr(s2[payload.id]),
              store |-> s2]

\* UpdateTodo with a status rule: the status of an archived todo is final
UpdateTodoOp_ArchivedIsFinal(s, t, userID, payload) ==
  LET setClauses == SetClauses(payload, t)
      m == Matching(s, userID, payload.id)
  IN IF Len(setClauses) = 0
     THEN [err |-> ErrBadRequest, msg |-> "no fields to update",
           data |-> Nil, store |-> s]
     ELSE IF m = {}
     THEN [err |-> ErrNoRows, msg |-> "failed to collect row from table:todos",
           data |-> Nil, store |-> s]
     ELSE IF /\ payload.status # Nil
             /\ \E i \in m : s[i].status = StatusArchived
     THEN [err |-> ErrBadRequest, msg |-> "invalid status transition",
           data |-> Nil, store |-> s]
     ELSE LET s2 == [i \in DOMAIN s |->
                       IF i \in m THEN ApplySet(s[i], setClauses) ELSE s[i]]
          IN [err |-> NoError, msg |-> "", data |-> Ptr(s2[payload.id]),
              store |-> s2]

UpdateTodoOp(s, t, userID, payload) ==
  LET setClauses == SetClauses(payload, t)
      m == Matching(s, userID, payload.id)
  IN IF Len(setClauses) = 0
     THEN [err |-> ErrBadRequest, msg |-> "no fields to update",
           data |-> Nil, store |-> s]
     ELSE IF m = {}
     THEN [err |-> ErrNoRows, msg |-> "failed to collect row from table:todos",
           data |-> Nil, store |-> s]
     ELSE LET s2 == [i \in DOMAIN s |->
                       IF i \in m THEN ApplySet(s[i], setClauses) ELSE s[i]]
          IN [err |-> NoError, msg |-> "", data |-> Ptr(s2[payload.id]),
              store |-> s2]

(* ----------------------------- DeleteTodo ------------------------------ *)

\* a delete that reports success but removes nothing (a soft delete)
DeleteTodoOp_KeepsRow(s, userID, todoID) ==
  LET m == Matching(s, userID, todoID)
  IN IF Cardinality(m) = 0
     THEN [err |-> ErrNotFound, msg |-> "todo not found", data |-> Nil,
           store |-> s]
     ELSE [err |-> NoError, msg |-> "", data |-> Nil, store |-> s]

\* DELETE FROM todos WHERE id=@todo_id AND user_id=@user_id, then RowsAffected
DeleteTodoOp(s, userID, todoID) ==
  LET m == Matching(s, userID, todoID)
      s2 == [i \in DOMAIN s \ m |-> s[i]]
  IN IF Cardinality(m) = 0
     THEN [err |-> ErrNotFound, msg |-> "todo not found", data |-> Nil,
           store |-> s]
     ELSE [err |-> NoError, msg |-> "", data |-> Nil, store |-> s2]

(* ------------------------------ GetTodos ------------------------------- *)

Cond(kind, val) == << [kind |-> kind, val |-> val] >>

\* the default listing shows every todo, children included
Conditions_NoRootDefault(userID, query) ==
  Cond("user_id", userID)
  \o (IF query.status # Nil THEN Cond("status", query.status[1]) ELSE <<>>)
  \o (IF query.priority # Nil
      THEN Cond("priority", query.priority[1]) ELSE <<>>)
  \o (IF query.category_id # Nil
      THEN Cond("category_id", query.category_id[1]) ELSE <<>>)
  \o (IF query.parent_todo_id # Nil
      THEN Cond("parent_todo_id", query.parent_todo_id[1])
      ELSE <<>>)
  \o (IF query.due_from # Nil
      THEN Cond("due_from", query.due_from[1]) ELSE <<>>)
  \o (IF query.due_to # Nil THEN Cond("due_to", query.due_to[1]) ELSE <<>>)
  \o (IF query.overdue # Nil /\ query.overdue[1]
      THEN Cond("overdue", Nil) ELSE <<>>)
  \o (IF query.completed # Nil
      THEN (IF query.completed[1] THEN Cond("completed", Nil)
            ELSE Cond("not_completed", Nil))
      ELSE <<>>)
  \o (IF query.search # Nil
      THEN Cond("search", <<"%">> \o query.search[1] \o <<"%">>) ELSE <<>>)

\* the constraint set with the completed flag looked at only when the overdue
\* flag adds no constraint
Conditions_OverdueElseCompleted(userID, query) ==
  Cond("user_id", userID)
  \o (IF query.status # Nil THEN Cond("status", query.status[1]) ELSE <<>>)
  \o (IF query.priority # Nil
      THEN Cond("priority", query.priority[1]) ELSE <<>>)
  \o (IF query.category_id # Nil
      THEN Cond("category_id", query.category_id[1]) ELSE <<>>)
  \o (IF query.parent_todo_id # Nil
      THEN Cond("parent_todo_id", query.parent_todo_id[1])
      ELSE Cond("parent_is_null", Nil))
  \o (IF query.due_from # Nil
      THEN Cond("due_from", query.due_from[1]) ELSE <<>>)
  \o (IF query.due_to # Nil THEN Cond("due_to", query.due_to[1]) ELSE <<>>)
  \o (IF query.overdue # Nil /\ query.overdue[1]
      THEN Cond("overdue", Nil)
      ELSE IF query.completed # Nil
      THEN (IF query.completed[1] THEN Cond("completed", Nil)
            ELSE Cond("not_completed", Nil))
      ELSE <<>>)
  \o (IF query.search # Nil
      THEN Cond("search", <<"%">> \o query.search[1] \o <<"%">>) ELSE <<>>)

\* the conditions of the WHERE clause with their bound values, in the order
\* the code appends them
Conditions(userID, query) ==
  Cond("user_id", userID)
  \o (IF query.status # Nil THEN Cond("status", query.status[1]) ELSE <<>>)
  \o (IF query.priority # Nil
      THEN Cond("priority", query.priority[1]) ELSE <<>>)
  \o (IF query.category_id # Nil
      THEN Cond("category_id", query.category_id[1]) ELSE <<>>)
  \o (IF query.parent_todo_id # Nil
      THEN Cond("parent_todo_id", query.parent_todo_id[1])
      ELSE Cond("parent_is_null", Nil))
  \o (IF query.due_from # Nil
      THEN Cond("due_from", query.due_from[1]) ELSE <<>>)
  \o (IF query.due_to # Nil THEN Cond("due_to", query.due_to[1]) ELSE <<>>)
  \o (IF query.overdue # Nil /\ query.overdue[1]
      THEN Cond("overdue", Nil) ELSE <<>>)
  \o (IF query.completed # Nil
      THEN (IF query.completed[1] THEN Cond("completed", Nil)
            ELSE Cond("not_completed", Nil))
      ELSE <<>>)
  \o (IF query.search # Nil
      THEN Cond("search", <<"%">> \o query.search[1] \o <<"%">>) ELSE <<>>)

\* ILIKE folds case
Lower(c) ==
  CASE c = "A" -> "a"
    [] c = "B" -> "b"
    [] c = "D" -> "d"
    [] c = "E" -> "e"
    [] OTHER -> c

\* text ILIKE pattern: % matches any run of characters, _ any one character
RECURSIVE ILike(_, _)
ILike(text, pattern) ==
  IF pattern = <<>> THEN text = <<>>
  ELSE IF Head(pattern) = "%"
  THEN \/ ILike(text, Tail(pattern))
       \/ (text # <<>> /\ ILike(Tail(text), pattern))
  ELSE IF text = <<>> THEN FALSE
  ELSE /\ (Head(pattern) = "_" \/ Lower(Head(pattern)) = Lower(Head(text)))
       /\ ILike(Tail(text), Tail(pattern))

\* one condition on one row, t the store's NOW(); a comparison with NULL is
\* not true
CondHolds(c, row, t) ==
  CASE c.kind = "user_id" -> row.user_id = c.val
    [] c.kind = "status" -> row.status = c.val
    [] c.kind = "priority" -> row.priority = c.val
    [] c.kind = "category_id" -> row.category_id = Ptr(c.val)
    [] c.kind = "parent_todo_id" -> row.parent_todo_id = Ptr(c.val)
    [] c.kind = "parent_is_null" -> row.parent_todo_id = Nil
    [] c.kind = "due_from" ->
         IF row.due_date = Nil THEN FALSE ELSE row.due_date[1] >= c.val
    [] c.kind = "due_to" ->
         IF row.due_date = Nil THEN FALSE ELSE row.due_date[1] <= c.val
    [] c.kind = "overdue" ->
         IF row.due_date = Nil THEN FALSE
         ELSE row.due_date[1] < t /\ row.status # StatusCompleted
    [] c.kind = "completed" -> row.status = StatusCompleted
    [] c.kind = "not_completed" -> row.status # StatusCompleted
    [] c.kind = "search" ->
         \/ ILike(row.title, c.val)
         \/ (IF row.description = Nil THEN FALSE
             ELSE ILike(row.description[1], c.val))

Where_JoinOr(conds, row, t) ==
  \E k \in 1..Len(conds) : CondHolds(conds[k], row, t)

\* strings.Join(conditions, " AND ")
Where(conds, row, t) ==
  \A k \in 1..Len(conds) : CondHolds(conds[k], row, t)

\* the ORDER BY clause with the order parameter ignored: a sort field always
\* sorts descending
OrderKey_AlwaysDescending(query) ==
  IF query.sort # Nil
  THEN [col |-> query.sort[1], desc |-> TRUE]
  ELSE [col |-> "created_at", desc |-> TRUE]

\* " ORDER BY t." + sort + (" DESC" | " ASC"), or " ORDER BY t.created_at DESC"
OrderKey(query) ==
  IF query.sort # Nil
  THEN [col |-> query.sort[1],
        desc |-> (IF query.order # Nil THEN query.order[1] = "desc"
                  ELSE FALSE)]
  ELSE [col |-> "created_at", desc |-> TRUE]

\* the sort fields the API contract admits
SortAllowList ==
  {"created_at", "updated_at", "title", "priority", "due_date", "status"}

\* the columns of table todos
TodoColumns ==
  {"id", "user_id", "title", "description", "status", "priority", "due_date",
   "completed_at", "parent_todo_id", "category_id", "metadata", "sort_order",
   "created_at", "updated_at"}

\* the place of a row's value in the order of a column, for the columns
\* whose order is that of integers; NULL sorts as larger than every value
SortRank(row, col) ==
  CASE col = "created_at" -> row.created_at
    [] col = "id" -> row.id
    [] col = "due_date" ->
         IF row.due_date = Nil THEN MaxTime + 1 ELSE row.due_date[1]

\* ORDER BY puts x strictly before y
Before(x, y, key) ==
  IF key.desc THEN SortRank(x, key.col) > SortRank(y, key.col)
  ELSE SortRank(x, key.col) < SortRank(y, key.col)

Perms(S) ==
  {f \in [1..Cardinality(S) -> S] :
     \A i, j \in 1..Cardinality(S) : i # j => f[i] # f[j]}

\* the orders in which the store may return the rows ids of s under
\* ORDER BY key: rows that compare equal come in any order
Orderings(s, ids, key) ==
  {f \in Perms(ids) :
     \A i, j \in 1..Len(f) : i < j => ~Before(s[f[j]], s[f[i]], key)}

\* LIMIT @limit OFFSET @offset
LimitOffset(seq, limit, offset) ==
  IF offset >= Len(seq) THEN <<>>
  ELSE SubSeq(seq, offset + 1,
              IF offset + limit < Len(seq) THEN offset + limit ELSE Len(seq))

TotalPages_CountPartial(total, limit) == total \div limit + 1

\* (total + limit - 1) / limit
TotalPages(total, limit) == (total + limit - 1) \div limit

\* pgx.CollectRows: the rows as a slice, empty and not nil when there are none
CollectRows(s, ids) ==
  [null |-> FALSE, items |-> [k \in 1..Len(ids) |-> s[ids[k]]]]

\* the nil *model.PaginatedResponse of a call that fails
NoPage(err, msg, orderBy, queries) ==
  [err |-> err, msg |-> msg, data |-> [null |-> TRUE, items |-> <<>>],
   page |-> 0, limit |-> 0, total |-> 0, totalPages |-> 0,
   orderBy |-> orderBy, queries |-> queries]

\* GetTodos with a total that counts the rows of the returned page instead
\* of the rows the count query matches
GetTodosResults_CountsPage(s, t, userID, query) ==
  LET conds == Conditions(userID, query)
      m == {i \in DOMAIN s : Where(conds, s[i], t)}
      offset == (query.page - 1) * query.limit
      key == OrderKey(query)
  IN IF key.col \notin TodoColumns
     THEN { NoPage(ErrSQL, "failed to execute get todos query", key.col, 2) }
     ELSE IF query.limit = 0
     THEN { NoPage(ErrPanic, "integer divide by zero", key.col, 2) }
     ELSE { [err |-> NoError, msg |-> "",
             data |-> CollectRows(s, LimitOffset(ord, query.limit, offset)),
             page |-> query.page,
             limit |-> query.limit,
             total |-> Len(LimitOffset(ord, query.limit, offset)),
             totalPages |->
               TotalPages(Len(LimitOffset(ord, query.limit, offset)),
                          query.limit),
             orderBy |-> key.col,
             queries |-> 2]
            : ord \in Orderings(s, m, key) }

\* what GetTodos may return: the count query, then the page query under one
\* of the orders the store may choose.  Each listed item is the t.* columns of
\* its row; the joined category, children and comments columns do not change
\* which rows are listed (LEFT JOIN, GROUP BY t.id, c.id).  orderBy is the
\* column text the call appends after " ORDER BY t.", queries the number of
\* statements the call has sent to the store.  The store rejects a page
\* query that orders by a column the table does not have; the division of
\* TotalPages panics when the limit is 0.
GetTodosResults(s, t, userID, query) ==
  LET conds == Conditions(userID, query)
      m == {i \in DOMAIN s : Where(conds, s[i], t)}
      total == Cardinality(m)
      offset == (query.page - 1) * query.limit
      key == OrderKey(query)
  IN IF key.col \notin TodoColumns
     THEN { NoPage(ErrSQL, "failed to execute get todos query", key.col, 2) }
     ELSE IF query.limit = 0
     THEN { NoPage(ErrPanic, "integer divide by zero", key.col, 2) }
     ELSE { [err |-> NoError, msg |-> "",
             data |-> CollectRows(s, LimitOffset(ord, query.limit, offset)),
             page |-> query.page,
             limit |-> query.limit,
             total |-> total,
             totalPages |-> TotalPages(total, query.limit),
             orderBy |-> key.col,
             queries |-> 2]
            : ord \in Orderings(s, m, key) }

(* ---------------------------- GetTodoStats ----------------------------- *)

\* every todo with a past due date counts, completed ones included
IsOverdue_CountsCompleted(row, t) ==
  IF row.due_date = Nil THEN FALSE ELSE row.due_date[1] < t

\* CASE WHEN due_date<NOW() AND status!='completed' THEN 1 END, t the store's
\* NOW(); a NULL due date yields NULL, which COUNT skips
IsOverdue(row, t) ==
  IF row.due_date = Nil THEN FALSE
  ELSE row.due_date[1] < t /\ row.status # StatusCompleted

\* the statistics with a total that counts root todos only, as the default
\* listing does, while the other counts cover every todo of the owner
GetTodoStatsOp_TotalOfRoots(s, t, userID) ==
  LET mine == {i \in DOMAIN s : s[i].user_id = userID}
      count(st) == Cardinality({i \in mine : s[i].status = st})
  IN [err |-> NoError, msg |-> "",
      data |-> Ptr([total     |-> Cardinality({i \in mine :
                                                 s[i].parent_todo_id = Nil}),
                    draft     |-> count("draft"),
                    active    |-> count("active"),
                    completed |-> count("completed"),
                    archived  |-> count("archived"),
                    overdue   |-> Cardinality({i \in mine :
                                                 IsOverdue(s[i], t)})]),
      store |-> s]

\* SELECT COUNT(*), COUNT(CASE ...), ... FROM todos WHERE user_id=@user_id:
\* an aggregate without GROUP BY yields exactly one row
GetTodoStatsOp(s, t, userID) ==
  LET mine == {i \in DOMAIN s : s[i].user_id = userID}
      count(st) == Cardinality({i \in mine : s[i].status = st})
  IN [err |-> NoError, msg |-> "",
      data |-> Ptr([total     |-> Cardinality(mine),
                    draft     |-> count("draft"),
                    active    |-> count("active"),
                    completed |-> count("completed"),
                    archived  |-> count("archived"),
                    overdue   |-> Cardinality({i \in mine :
                                                 IsOverdue(s[i], t)})]),
      store |-> s]

(* --------------------- calls under a context (ctx) --------------------- *)

Ctxs == {"live", "cancelled"}

\* a cancelled context is never looked at
PoolFails_IgnoresCtx(ctx) == FALSE

\* r.server.DB.Pool.Query / QueryRow / Exec with ctx: with a cancelled context
\* the pool returns the context's error and sends nothing to the store
PoolFails(ctx) == ctx = "cancelled"

\* return nil, fmt.Errorf(msg + ": %w", err)
Failure(err, msg, s) == [err |-> err, msg |-> msg, data |-> Nil, store |-> s]

CreateTodoCtx(ctx, s, id, t, userID, payload) ==
  IF PoolFails(ctx)
  THEN Failure(ErrCanceled, "failed to execute create todo query", s)
  ELSE CreateTodoOp(s, id, t, userID, payload)

\* a missing row is reported as a failure of the store
GetTodoByIDCtx_MissIsStoreError(ctx, s, userID, todoID) ==
  IF PoolFails(ctx) \/ Matching(s, userID, todoID) = {}
  THEN Failure(ErrCanceled, "failed to execute get todo by id query", s)
  ELSE GetTodoByIDOp(s, userID, todoID)

GetTodoByIDCtx(ctx, s, userID, todoID) ==
  IF PoolFails(ctx)
  THEN Failure(ErrCanceled, "failed to execute get todo by id query", s)
  ELSE GetTodoByIDOp(s, userID, todoID)

CheckTodoExistsCtx(ctx, s, userID, todoID) ==
  IF PoolFails(ctx)
  THEN Failure(ErrCanceled, "failed to check if todo exists", s)
  ELSE CheckTodoExistsOp(s, userID, todoID)

\* the count query is the first statement of GetTodos
GetTodosCtx(ctx, s, t, userID, query) ==
  IF PoolFails(ctx)
  THEN { NoPage(ErrCanceled, "failed to get total count for todos", "", 0) }
  ELSE GetTodosResults(s, t, userID, query)

\* the empty payload is rejected before the pool is called
UpdateTodoCtx(ctx, s, t, userID, payload) ==
  IF Len(SetClauses(payload, t)) = 0 THEN UpdateTodoOp(s, t, userID, payload)
  ELSE IF PoolFails(ctx) THEN Failure(ErrCanceled, "failed to execute query", s)
  ELSE UpdateTodoOp(s, t, userID, payload)

DeleteTodoCtx(ctx, s, userID, todoID) ==
  IF PoolFails(ctx) THEN Failure(ErrCanceled, "failed to execute query", s)
  ELSE DeleteTodoOp(s, userID, todoID)

GetTodoStatsCtx(ctx, s, t, userID) ==
  IF PoolFails(ctx) THEN Failure(ErrCanceled, "failed to execute query", s)
  ELSE GetTodoStatsOp(s, t, userID)

\* the values that the error messages of a method format in after their text
\* ("... for todo_id=%s user_id=%s: %w")
MsgArgs(op) ==
  CASE op = "CreateTodo" -> {"user_id", "title"}
    [] op = "GetTodoByID" -> {"todo_id", "user_id"}
    [] op = "CheckTodoExists" -> {"todo_id", "user_id"}
    [] op = "GetTodos" -> {"user_id"}
    [] op = "UpdateTodo" -> {}
    [] op = "DeleteTodo" -> {}
    [] op = "GetTodoStats" -> {}

(* ------------- the children and comments of a PopulatedTodo ------------ *)

\* NULL of a LEFT JOIN that found no row
NoRow == 0

\* the joined rows with the children of every owner: the join with todos
\* child lacks its condition on child.user_id
JoinRows_AnyOwnerChildren(s, cm, userID, todoID) ==
  LET kids == {i \in DOMAIN s : s[i].parent_todo_id = Ptr(todoID)}
      coms == {j \in DOMAIN cm : /\ cm[j].todo_id = todoID
                                 /\ cm[j].user_id = userID}
  IN (IF kids = {} THEN {NoRow} ELSE kids)
     \X (IF coms = {} THEN {NoRow} ELSE coms)

\* FROM todos t LEFT JOIN todos child ON child.parent_todo_id=t.id AND
\* child.user_id=@user_id LEFT JOIN todo_comments com ON com.todo_id=t.id AND
\* com.user_id=@user_id, for one row t: the joined rows as pairs <<child id,
\* comment id>>.  (The join with todo_categories adds at most one row to each.)
JoinRows(s, cm, userID, todoID) ==
  LET kids == {i \in DOMAIN s : /\ s[i].parent_todo_id = Ptr(todoID)
                                /\ s[i].user_id = userID}
      coms == {j \in DOMAIN cm : /\ cm[j].todo_id = todoID
                                 /\ cm[j].user_id = userID}
  IN (IF kids = {} THEN {NoRow} ELSE kids)
     \X (IF coms = {} THEN {NoRow} ELSE coms)

\* child.sort_order ASC, child.created_at ASC puts child x strictly before y
ChildBefore(s, x, y) ==
  \/ s[x].sort_order < s[y].sort_order
  \/ (s[x].sort_order = s[y].sort_order /\ s[x].created_at < s[y].created_at)

\* com.created_at ASC puts comment x strictly before y
CommentBefore(cm, x, y) == cm[x].created_at < cm[y].created_at

\* the orders in which an aggregate with ORDER BY may take the joined rows
\* R, B the pairs <<x, y>> with x strictly before y: a row comes next when
\* none of the others is strictly before it
RECURSIVE AggOrders(_, _)
AggOrders(R, B) ==
  IF R = {} THEN { <<>> }
  ELSE UNION { { <<x>> \o rest : rest \in AggOrders(R \ {x}, B) }
               : x \in {y \in R : \A z \in R : <<z, y>> \notin B} }

\* COALESCE(jsonb_agg(to_jsonb(x) ORDER BY ...) FILTER (WHERE x.id IS NOT
\* NULL), '[]'): one element per joined row whose part (1 the child, 2 the
\* comment) is not NULL, in one of the orders the ORDER BY admits; the empty
\* array, never null, when there is none.  rows is the joined table by id,
\* Bids the pairs <<x, y>> of its ids with x strictly before y.
JsonbAgg(R, part, Bids, rows) ==
  LET F == {r \in R : r[part] # NoRow}
      B == {pq \in F \X F : <<pq[1][part], pq[2][part]>> \in Bids}
  IN { [null |-> FALSE, items |-> [k \in 1..Len(o) |-> rows[o[k][part]]]]
       : o \in AggOrders(F, B) }

\* the category of another owner, too, is joined to the todo
Category_IgnoresOwner(s, cats, userID, todoID) ==
  LET J == {c \in DOMAIN cats : s[todoID].category_id = Ptr(c)}
  IN IF J = {} THEN Nil ELSE Ptr(cats[CHOOSE c \in J : TRUE])

\* LEFT JOIN todo_categories c ON c.id=t.category_id AND c.user_id=@user_id
\* and CASE WHEN c.id IS NOT NULL THEN to_jsonb(camel(c)) ELSE NULL END: the
\* join finds at most one row c, ids being unique; without one, c is NULL
\* and so is category
Category(s, cats, userID, todoID) ==
  LET J == {c \in DOMAIN cats : /\ s[todoID].category_id = Ptr(c)
                                /\ cats[c].user_id = userID}
  IN IF J = {} THEN Nil ELSE Ptr(cats[CHOOSE c \in J : TRUE])

\* the PopulatedTodo values the SELECT ... GROUP BY t.id, c.id may yield for
\* the row of todo todoID
Populated(s, cm, cats, userID, todoID) ==
  LET R == JoinRows(s, cm, userID, todoID)
      B1 == {xy \in (DOMAIN s) \X (DOMAIN s) : ChildBefore(s, xy[1], xy[2])}
      B2 == {xy \in (DOMAIN cm) \X (DOMAIN cm) :
               CommentBefore(cm, xy[1], xy[2])}
  IN { [todo |-> s[todoID], category |-> Category(s, cats, userID, todoID),
         children |-> cs, comments |-> ms]
       : cs \in JsonbAgg(R, 1, B1, s), ms \in JsonbAgg(R, 2, B2, cm) }

\* GetTodoByID with the category, the children and the comments of the todo
\* it returns
GetTodoByIDPopulated(s, cm, cats, userID, todoID) ==
  LET r == GetTodoByIDOp(s, userID, todoID)
  IN IF r.err # NoError THEN { r }
     ELSE { [r EXCEPT !.data = Ptr(pt)]
            : pt \in Populated(s, cm, cats, userID, todoID) }

\* GetTodos with the category, the children and the comments of each todo it
\* lists
GetTodosPopulated(s, cm, cats, t, userID, query) ==
  UNION {
    LET n == Len(r.data.items)
        P(k) == Populated(s, cm, cats, userID, r.data.items[k].id)
    IN { [r EXCEPT !.data.items = f]
         : f \in {g \in [1..n -> UNION {P(k) : k \in 1..n}] :
                    \A k \in 1..n : g[k] \in P(k)} }
    : r \in GetTodosResults(s, t, userID, query) }

(* ----------------- the two statements of GetTodos ---------------------- *)

\* SELECT COUNT(*) FROM todos t WHERE <conditions>, Scan(&total)
CountQuery(s, t, userID, query) ==
  Cardinality({i \in DOMAIN s : Where(Conditions(userID, query), s[i], t)})

\* the page query and the response, total being what the count query found
PageQuery(s, t, userID, query, total) ==
  { [r EXCEPT !.total = total,
              !.totalPages = TotalPages(total, query.limit)]
    : r \in GetTodosResults(s, t, userID, query) }

(* ======================================================================= *)
(* Spec: sequences of repository calls on one shared store.  Every call is *)
(* one statement on the store, hence one atomic step.                      *)
(* ======================================================================= *)

NoScan == [active |-> FALSE, user |-> "", limit |-> 0, page |-> 0,
           total |-> 0, totalPages |-> 0, acc |-> <<>>]

NoCall ==
  [op |-> "none", user |-> "", id |-> 0, err |-> NoError, msg |-> "",
   data |-> Nil]

NoReq == [kind |-> "none"]

Call(op, userID, todoID, r) ==
  [op |-> op, user |-> userID, id |-> todoID, err |-> r.err, msg |-> r.msg,
   data |-> r.data]

\* the payload with every optional field absent
EmptyUpdate(todoID) ==
  [id |-> todoID, title |-> Nil, description |-> Nil, status |-> Nil,
   priority |-> Nil, due_date |-> Nil, parent_todo_id |-> Nil,
   category_id |-> Nil, metadata |-> Nil]

\* payloads the callers of Spec send: a title only; a status or nothing
CreatePayloads ==
  [title : {<<"a">>}, description : {Nil}, priority : {Nil},
   due_date : {Nil}, parent_todo_id : {Nil}, category_id : {Nil},
   metadata : {Nil}]

UpdatePayloads ==
  [id : TodoIDs, title : {Nil}, description : {Nil},
   status : {Nil} \cup {Ptr(x) : x \in Statuses}, priority : {Nil},
   due_date : {Nil}, parent_todo_id : {Nil}, category_id : {Nil},
   metadata : {Nil}]

\* no call of Spec compares a time it reads, and the clock stands still
Init ==
  /\ store = <<>>
  /\ nextId = 1
  /\ now = 1
  /\ last = NoCall
  /\ req = NoReq
  /\ scan = NoScan
  /\ categories = <<>>
  /\ prev = <<>>
  /\ comments = <<>>
  /\ calls = <<>>

CreateTodo ==
  /\ nextId <= MaxTodos
  /\ \E u \in Users, p \in CreatePayloads :
    /\ LET r == CreateTodoOp(store, nextId, now, u, p)
       IN /\ store' = r.store
          /\ last' = Call("CreateTodo", u, nextId, r)
    /\ nextId' = nextId + 1
    /\ UNCHANGED <<now, req, scan, comments, calls, categories, prev>>

GetTodoByID ==
  \E u \in Users, id \in TodoIDs :
    /\ last' = Call("GetTodoByID", u, id, GetTodoByIDOp(store, u, id))
    /\ UNCHANGED <<store, nextId, now, req, scan, comments, calls,
                   categories, prev>>

CheckTodoExists ==
  \E u \in Users, id \in TodoIDs :
    /\ last' = Call("CheckTodoExists", u, id, CheckTodoExistsOp(store, u, id))
    /\ UNCHANGED <<store, nextId, now, req, scan, comments, calls,
                   categories, prev>>

UpdateTodo ==
  \E u \in Users, p \in UpdatePayloads :
    /\ LET r == UpdateTodoOp(store, now, u, p)
       IN /\ store' = r.store
          /\ last' = Call("UpdateTodo", u, p.id, r)
    /\ UNCHANGED <<nextId, now, req, scan, comments, calls, categories, prev>>

DeleteTodo ==
  \E u \in Users, id \in TodoIDs :
    /\ LET r == DeleteTodoOp(store, u, id)
       IN /\ store' = r.store
          /\ last' = Call("DeleteTodo", u, id, r)
    /\ UNCHANGED <<nextId, now, req, scan, comments, calls, categories, prev>>

Next ==
  \/ CreateTodo
  \/ GetTodoByID
  \/ CheckTodoExists
  \/ UpdateTodo
  \/ DeleteTodo

Spec == Init /\ [][Next]_vars

(* ======================================================================= *)
(* SpecStep: one CreateTodo or UpdateTodo call, with every shape of        *)
(* payload, on a store drawn from a family of stores that calls can build. *)
(* ======================================================================= *)

\* a row as CreateTodo and UpdateTodo leave it: bare has every optional column
\* NULL, full has every optional column set
StepRow(id, u, full, st) ==
  [id             |-> id,
   user_id        |-> u,
   title          |-> <<"a">>,
   description    |-> IF full THEN Ptr(<<"d">>) ELSE Nil,
   status         |-> st,
   priority       |-> IF full THEN PriorityHigh ELSE PriorityMedium,
   due_date       |-> IF full THEN Ptr(1) ELSE Nil,
   completed_at   |-> IF st = StatusCompleted THEN Ptr(1) ELSE Nil,
   parent_todo_id |-> IF full /\ id > 1 THEN Ptr(1) ELSE Nil,
   category_id    |-> IF full THEN Ptr("c1") ELSE Nil,
   metadata       |-> IF full THEN Ptr("m") ELSE Nil,
   created_at     |-> 1]

\* rows 1..n-1 are bare drafts of any owner, row n is any StepRow
StepStores ==
  {<<>>} \cup
  UNION {
    UNION {
      { [i \in 1..n |-> IF i = n THEN StepRow(n, u, full, st)
                        ELSE StepRow(i, owners[i], FALSE, StatusDraft)]
        : u \in Users, full \in BOOLEAN, st \in Statuses }
      : owners \in [1..(n - 1) -> Users] }
    : n \in 1..MaxTodos }

AllCreatePayloads ==
  [title : {<<"a">>},
   description : {Nil, Ptr(<<"d">>)},
   priority : {Nil} \cup {Ptr(x) : x \in Priorities},
   due_date : {Nil, Ptr(MaxTime)},
   parent_todo_id : {Nil, Ptr(1)},
   category_id : {Nil, Ptr("c1")},
   metadata : {Nil, Ptr("m")}]

AllUpdatePayloads ==
  [id : AnyIDs,
   title : {Nil, Ptr(<<"b">>)},
   description : {Nil, Ptr(<<"e">>)},
   status : {Nil} \cup {Ptr(x) : x \in Statuses},
   priority : {Nil, Ptr(PriorityLow)},
   due_date : {Nil, Ptr(MaxTime)},
   parent_todo_id : {Nil} \cup {Ptr(i) : i \in TodoIDs},
   category_id : {Nil, Ptr("c2")},
   metadata : {Nil, Ptr("n")}]

\* the caller names an existing todo as parent
ParentExists(s, p) ==
  IF p.parent_todo_id = Nil THEN TRUE ELSE p.parent_todo_id[1] \in DOMAIN s

\* the call is made after the rows were written
StepInit ==
  /\ store \in StepStores
  /\ nextId = Cardinality(DOMAIN store) + 1
  /\ now = MaxTime
  /\ last = NoCall
  /\ req = NoReq
  /\ scan = NoScan
  /\ categories = <<>>
  /\ prev = <<>>
  /\ comments = <<>>
  /\ calls = <<>>

StepCreateTodo ==
  /\ last.op = "none"
  /\ nextId <= MaxTodos
  /\ \E u \in Users, p \in AllCreatePayloads :
    /\ ParentExists(store, p)
    /\ LET r == CreateTodoOp(store, nextId, now, u, p)
       IN /\ store' = r.store
          /\ last' = Call("CreateTodo", u, nextId, r)
    /\ req' = p
    /\ nextId' = nextId + 1
    /\ UNCHANGED <<now, scan, comments, calls, categories, prev>>

StepUpdateTodo ==
  /\ last.op = "none"
  /\ \E u \in Users, p \in AllUpdatePayloads :
    /\ ParentExists(store, p)
    /\ LET r == UpdateTodoOp(store, now, u, p)
       IN /\ store' = r.store
          /\ last' = Call("UpdateTodo", u, p.id, r)
    /\ req' = p
    /\ UNCHANGED <<nextId, now, scan, comments, calls, categories, prev>>

StepNext ==
  \/ StepCreateTodo
  \/ StepUpdateTodo

SpecStep == StepInit /\ [][StepNext]_vars

(* ======================================================================= *)
(* SpecList: one GetTodos call, with every combination of filters, on a    *)
(* store drawn from a family of stores that calls can build.               *)
(* ======================================================================= *)

\* the kinds of row the listed stores hold: two root todos of u1 created at
\* the same instant, a later root todo of u1, a child todo of u1, and a root
\* todo of u2
ListShapes ==
  { [user_id |-> "u1", status |-> StatusDraft, priority |-> PriorityMedium,
     category_id |-> Nil, due_date |-> Nil, child |-> FALSE, created_at |-> 1],
    [user_id |-> "u1", status |-> StatusCompleted, priority |-> PriorityHigh,
     category_id |-> Ptr("c1"), due_date |-> Ptr(1), child |-> FALSE,
     created_at |-> 1],
    [user_id |-> "u1", status |-> StatusActive, priority |-> PriorityHigh,
     category_id |-> Ptr("c1"), due_date |-> Ptr(MaxTime), child |-> FALSE,
     created_at |-> MaxTime],
    [user_id |-> "u1", status |-> StatusDraft, priority |-> PriorityHigh,
     category_id |-> Ptr("c1"), due_date |-> Ptr(1), child |-> TRUE,
     created_at |-> MaxTime],
    [user_id |-> "u2", status |-> StatusDraft, priority |-> PriorityHigh,
     category_id |-> Ptr("c1"), due_date |-> Ptr(1), child |-> FALSE,
     created_at |-> 1] }

\* a child is a todo created with todo 1 as its parent
ListRow(id, sh) ==
  [id             |-> id,
   user_id        |-> sh.user_id,
   title          |-> <<"a">>,
   description    |-> Nil,
   status         |-> sh.status,
   priority       |-> sh.priority,
   due_date       |-> sh.due_date,
   completed_at   |-> IF sh.status = StatusCompleted THEN Ptr(1) ELSE Nil,
   parent_todo_id |-> IF sh.child THEN Ptr(1) ELSE Nil,
   category_id    |-> sh.category_id,
   metadata       |-> Nil,
   created_at     |-> sh.created_at]

ListStores ==
  UNION {
    { [i \in 1..n |-> ListRow(i, shapes[i])]
      : shapes \in {f \in [1..n -> ListShapes] :
                      \A i \in 1..n : f[i].child => i > 1} }
    : n \in 0..MaxTodos }

NoFilters(page, limit) ==
  [page |-> page, limit |-> limit, status |-> Nil, priority |-> Nil,
   category_id |-> Nil, parent_todo_id |-> Nil, due_from |-> Nil,
   due_to |-> Nil, overdue |-> Nil, completed |-> Nil, search |-> Nil,
   sort |-> Nil, order |-> Nil]

ListQueries ==
  [page : 1..MaxTodos,
   limit : 1..MaxTodos,
   status : {Nil, Ptr(StatusDraft), Ptr(StatusCompleted)},
   priority : {Nil, Ptr(PriorityHigh)},
   category_id : {Nil, Ptr("c1")},
   parent_todo_id : {Nil, Ptr(1)},
   due_from : {Nil, Ptr(MaxTime)},
   due_to : {Nil, Ptr(1)},
   overdue : {Nil},
   completed : {Nil, Ptr(TRUE), Ptr(FALSE)},
   search : {Nil},
   sort : {Nil},
   order : {Nil}]

ListCall(userID, r) ==
  [op |-> "GetTodos", user |-> userID, id |-> 0, err |-> r.err,
   msg |-> r.msg, data |-> r.data, page |-> r.page, limit |-> r.limit,
   total |-> r.total, totalPages |-> r.totalPages, orderBy |-> r.orderBy,
   queries |-> r.queries]

ListInit ==
  /\ store \in ListStores
  /\ nextId = Cardinality(DOMAIN store) + 1
  /\ now = MaxTime
  /\ last = NoCall
  /\ req = NoReq
  /\ scan = NoScan
  /\ categories = <<>>
  /\ prev = <<>>
  /\ comments = <<>>
  /\ calls = <<>>

GetTodos ==
  /\ last.op = "none"
  /\ \E u \in Users, q \in ListQueries :
       \E r \in GetTodosResults(store, now, u, q) :
         /\ last' = ListCall(u, r)
         /\ req' = q
         /\ UNCHANGED <<store, nextId, now, scan, comments, calls,
                        categories, prev>>

ListNext == GetTodos

SpecList == ListInit /\ [][ListNext]_vars

(* ======================================================================= *)
(* SpecPages: a caller reads a listing page by page, page 1 first, with    *)
(* no filter, the default sort and no mutation between the calls.          *)
(* ======================================================================= *)

ItemIDs(data) == [k \in 1..Len(data.items) |-> data.items[k].id]

\* GetTodos(page 1, limit l)
PageFirst ==
  /\ ~scan.active
  /\ \E u \in Users, l \in 1..MaxTodos :
       \E r \in GetTodosResults(store, now, u, NoFilters(1, l)) :
         /\ last' = ListCall(u, r)
         /\ req' = NoFilters(1, l)
         /\ scan' = [active |-> TRUE, user |-> u, limit |-> l, page |-> 1,
                     total |-> r.total, totalPages |-> r.totalPages,
                     acc |-> ItemIDs(r.data)]
         /\ UNCHANGED <<store, nextId, now, comments, calls, categories, prev>>

\* GetTodos(the next page, the same limit), while pages remain
PageNext ==
  /\ scan.active
  /\ scan.page < scan.totalPages
  /\ \E r \in GetTodosResults(store, now, scan.user,
                              NoFilters(scan.page + 1, scan.limit)) :
       /\ last' = ListCall(scan.user, r)
       /\ req' = NoFilters(scan.page + 1, scan.limit)
       /\ scan' = [scan EXCEPT !.page = scan.page + 1,
                               !.total = r.total,
                               !.totalPages = r.totalPages,
                               !.acc = scan.acc \o ItemIDs(r.data)]
       /\ UNCHANGED <<store, nextId, now, comments, calls, categories, prev>>

PagesNext ==
  \/ PageFirst
  \/ PageNext

SpecPages == ListInit /\ [][PagesNext]_vars

(* ======================================================================= *)
(* SpecSort: one GetTodos call that names a sort field, a direction and a  *)
(* limit, 0 included, on a store of ListStores.                            *)
(* ======================================================================= *)

\* sort fields callers pass: two of the allow-list, a column outside it, and a
\* text that is no column
SortFields == {"created_at", "due_date", "id", "bogus"}

SortQueries ==
  { [NoFilters(p, l) EXCEPT !.sort = so, !.order = o]
    : p \in 1..MaxTodos, l \in 0..MaxTodos,
      so \in {Nil} \cup {Ptr(f) : f \in SortFields},
      o \in {Nil, Ptr("asc"), Ptr("desc"), Ptr("DESC")} }

GetTodosSorted ==
  /\ last.op = "none"
  /\ \E u \in Users, q \in SortQueries :
       \E r \in GetTodosResults(store, now, u, q) :
         /\ last' = ListCall(u, r)
         /\ req' = q
         /\ UNCHANGED <<store, nextId, now, scan, comments, calls,
                        categories, prev>>

SortNext == GetTodosSorted

SpecSort == ListInit /\ [][SortNext]_vars

(* ======================================================================= *)
(* SpecCtx: one call of any repository method, under a live or a cancelled *)
(* context, on a store of ListStores.                                      *)
(* ======================================================================= *)

CtxCall(op, ctx, userID, todoID, r) ==
  [op |-> op, ctx |-> ctx, user |-> userID, id |-> todoID, err |-> r.err,
   msg |-> r.msg, args |-> IF r.err = NoError THEN {} ELSE MsgArgs(op),
   data |-> r.data]

CtxCreateTodo ==
  /\ last.op = "none"
  /\ nextId <= MaxTodos
  /\ \E ctx \in Ctxs, u \in Users, p \in CreatePayloads :
       LET r == CreateTodoCtx(ctx, store, nextId, now, u, p)
       IN /\ store' = r.store
          /\ last' = CtxCall("CreateTodo", ctx, u, nextId, r)
          /\ req' = p
          /\ nextId' = IF r.err = NoError THEN nextId + 1 ELSE nextId
          /\ UNCHANGED <<now, scan, comments, calls, categories, prev>>

CtxGetTodoByID ==
  /\ last.op = "none"
  /\ \E ctx \in Ctxs, u \in Users, id \in TodoIDs :
       /\ last' = CtxCall("GetTodoByID", ctx, u, id,
                          GetTodoByIDCtx(ctx, store, u, id))
       /\ UNCHANGED <<store, nextId, now, req, scan, comments, calls,
                      categories, prev>>

CtxCheckTodoExists ==
  /\ last.op = "none"
  /\ \E ctx \in Ctxs, u \in Users, id \in TodoIDs :
       /\ last' = CtxCall("CheckTodoExists", ctx, u, id,
                          CheckTodoExistsCtx(ctx, store, u, id))
       /\ UNCHANGED <<store, nextId, now, req, scan, comments, calls,
                      categories, prev>>

CtxGetTodos ==
  /\ last.op = "none"
  /\ \E ctx \in Ctxs, u \in Users, l \in 1..MaxTodos :
       \E r \in GetTodosCtx(ctx, store, now, u, NoFilters(1, l)) :
         /\ last' = CtxCall("GetTodos", ctx, u, 0, r)
         /\ req' = NoFilters(1, l)
         /\ UNCHANGED <<store, nextId, now, scan, comments, calls,
                        categories, prev>>

CtxUpdateTodo ==
  /\ last.op = "none"
  /\ \E ctx \in Ctxs, u \in Users, p \in UpdatePayloads :
       LET r == UpdateTodoCtx(ctx, store, now, u, p)
       IN /\ store' = r.store
          /\ last' = CtxCall("UpdateTodo", ctx, u, p.id, r)
          /\ req' = p
          /\ UNCHANGED <<nextId, now, scan, comments, calls, categories, prev>>

CtxDeleteTodo ==
  /\ last.op = "none"
  /\ \E ctx \in Ctxs, u \in Users, id \in TodoIDs :
       LET r == DeleteTodoCtx(ctx, store, u, id)
       IN /\ store' = r.store
          /\ last' = CtxCall("DeleteTodo", ctx, u, id, r)
          /\ UNCHANGED <<nextId, now, req, scan, comments, calls,
                         categories, prev>>

CtxGetTodoStats ==
  /\ last.op = "none"
  /\ \E ctx \in Ctxs, u \in Users :
       /\ last' = CtxCall("GetTodoStats", ctx, u, 0,
                          GetTodoStatsCtx(ctx, store, now, u))
       /\ UNCHANGED <<store, nextId, now, req, scan, comments, calls,
                      categories, prev>>

CtxNext ==
  \/ CtxCreateTodo
  \/ CtxGetTodoByID
  \/ CtxCheckTodoExists
  \/ CtxGetTodos
  \/ CtxUpdateTodo
  \/ CtxDeleteTodo
  \/ CtxGetTodoStats

SpecCtx == ListInit /\ [][CtxNext]_vars

(* ======================================================================= *)
(* SpecSearch: one GetTodos call with a search term, on a store of root    *)
(* todos of u1 with various titles and descriptions.                       *)
(* ======================================================================= *)

SearchTitles == { <<"a", "b">>, <<"A">>, <<"d">>, <<"_", "e">> }

SearchDescriptions == { Nil, Ptr(<<"b">>) }

SearchTerms == { <<"a">>, <<"B">>, <<"a", "b">>, <<"_">>, <<"%">> }

SearchRow(id, title, description) ==
  [id             |-> id,
   user_id        |-> "u1",
   title          |-> title,
   description    |-> description,
   status         |-> StatusDraft,
   priority       |-> PriorityMedium,
   due_date       |-> Nil,
   completed_at   |-> Nil,
   parent_todo_id |-> Nil,
   category_id    |-> Nil,
   metadata       |-> Nil,
   created_at     |-> id]

SearchStores ==
  UNION {
    { [i \in 1..n |-> SearchRow(i, ti[i], de[i])]
      : ti \in [1..n -> SearchTitles], de \in [1..n -> SearchDescriptions] }
    : n \in 0..MaxTodos }

SearchInit ==
  /\ store \in SearchStores
  /\ nextId = Cardinality(DOMAIN store) + 1
  /\ now = MaxTime
  /\ last = NoCall
  /\ req = NoReq
  /\ scan = NoScan
  /\ categories = <<>>
  /\ prev = <<>>
  /\ comments = <<>>
  /\ calls = <<>>

GetTodosSearch ==
  /\ last.op = "none"
  /\ \E u \in Users, term \in SearchTerms :
       LET q == [NoFilters(1, MaxTodos) EXCEPT !.search = Ptr(term)]
       IN \E r \in GetTodosResults(store, now, u, q) :
            /\ last' = ListCall(u, r)
            /\ req' = q
            /\ UNCHANGED <<store, nextId, now, scan, comments, calls,
                           categories, prev>>

SearchNext == GetTodosSearch

SpecSearch == SearchInit /\ [][SearchNext]_vars

(* ======================================================================= *)
(* SpecAgg: one GetTodoByID or GetTodos call on a store that holds a root  *)
(* todo of u1 with children and comments.                                  *)
(* ======================================================================= *)

\* todos.sort_order is written outside the methods of this repository
SortOrders == {0, 1}

AggRow(id, parent, so, ct) ==
  [id             |-> id,
   user_id        |-> "u1",
   title          |-> <<"a">>,
   description    |-> Nil,
   status         |-> StatusDraft,
   priority       |-> PriorityMedium,
   due_date       |-> Nil,
   completed_at   |-> Nil,
   parent_todo_id |-> parent,
   category_id    |-> Nil,
   metadata       |-> Nil,
   sort_order     |-> so,
   created_at     |-> ct]

\* todo 1 is a root todo, todos 2..n are its children
AggStores ==
  UNION {
    { [i \in 1..n |-> IF i = 1 THEN AggRow(1, Nil, 0, 1)
                      ELSE AggRow(i, Ptr(1), so[i], ct[i])]
      : so \in [1..n -> SortOrders], ct \in [1..n -> Times] }
    : n \in 1..MaxTodos }

\* the comments of u1 on todo 1
AggComments ==
  UNION {
    { [j \in 1..m |-> [id |-> j, todo_id |-> 1, user_id |-> "u1",
                       created_at |-> ct[j]]]
      : ct \in [1..m -> Times] }
    : m \in 0..MaxComments }

AggInit ==
  /\ store \in AggStores
  /\ nextId = Cardinality(DOMAIN store) + 1
  /\ now = MaxTime
  /\ last = NoCall
  /\ req = NoReq
  /\ scan = NoScan
  /\ categories = <<>>
  /\ prev = <<>>
  /\ comments \in AggComments
  /\ calls = <<>>

AggGetTodoByID ==
  /\ last.op = "none"
  /\ \E u \in Users, id \in TodoIDs :
       \E r \in GetTodoByIDPopulated(store, comments, categories, u, id) :
         /\ last' = Call("GetTodoByID", u, id, r)
         /\ UNCHANGED <<store, nextId, now, req, scan, comments, calls,
                        categories, prev>>

AggGetTodos ==
  /\ last.op = "none"
  /\ \E u \in Users :
       \E r \in GetTodosPopulated(store, comments, categories, now, u,
                                  NoFilters(1, MaxTodos)) :
         /\ last' = ListCall(u, r)
         /\ req' = NoFilters(1, MaxTodos)
         /\ UNCHANGED <<store, nextId, now, scan, comments, calls,
                        categories, prev>>

AggNext ==
  \/ AggGetTodoByID
  \/ AggGetTodos

SpecAgg == AggInit /\ [][AggNext]_vars

(* ======================================================================= *)
(* SpecRace: a GetTodos call as the two statements it sends, with          *)
(* CreateTodo and DeleteTodo calls of other callers between them.  No      *)
(* transaction spans the two statements.                                   *)
(* ======================================================================= *)

\* GetTodos up to and including its count query
RaceCount ==
  /\ last.op = "none"
  /\ calls = <<>>
  /\ \E u \in Users, l \in 1..MaxTodos :
       /\ calls' = << [op |-> "GetTodos", user |-> u,
                       query |-> NoFilters(1, l),
                       total |-> CountQuery(store, now, u, NoFilters(1, l))] >>
       /\ UNCHANGED <<store, nextId, now, last, req, scan, comments,
                      categories, prev>>

\* GetTodos from its page query to its return
RacePage ==
  /\ calls # <<>>
  /\ \E r \in PageQuery(store, now, calls[1].user, calls[1].query,
                        calls[1].total) :
       /\ last' = ListCall(calls[1].user, r)
       /\ req' = calls[1].query
       /\ calls' = <<>>
       /\ UNCHANGED <<store, nextId, now, scan, comments, categories, prev>>

\* a CreateTodo of another caller, before the listing returns
RaceCreateTodo ==
  /\ last.op = "none"
  /\ nextId <= MaxTodos
  /\ \E u \in Users, p \in CreatePayloads :
       /\ store' = CreateTodoOp(store, nextId, now, u, p).store
       /\ nextId' = nextId + 1
       /\ UNCHANGED <<now, last, req, scan, comments, calls, categories, prev>>

\* a DeleteTodo of another caller, before the listing returns
RaceDeleteTodo ==
  /\ last.op = "none"
  /\ \E u \in Users, id \in DOMAIN store :
       /\ store[id].user_id = u
       /\ store' = DeleteTodoOp(store, u, id).store
       /\ UNCHANGED <<nextId, now, last, req, scan, comments, calls,
                      categories, prev>>

RaceNext ==
  \/ RaceCount
  \/ RacePage
  \/ RaceCreateTodo
  \/ RaceDeleteTodo

SpecRace == Init /\ [][RaceNext]_vars

(* ======================================================================= *)
(* SpecConc: two UpdateTodo calls of u1 on todo 1, in flight together,     *)
(* whose payloads set disjoint fields.  Each call is one UPDATE statement; *)
(* the store applies the statements that write one row one after the      *)
(* other, each to the row the one before left.                             *)
(* ======================================================================= *)

ConcPayloads ==
  { p \in [id : {1},
           title : {Nil, Ptr(<<"b">>)},
           description : {Nil},
           status : {Nil, Ptr(StatusActive), Ptr(StatusCompleted)},
           priority : {Nil, Ptr(PriorityLow)},
           due_date : {Nil, Ptr(MaxTime)},
           parent_todo_id : {Nil},
           category_id : {Nil, Ptr("c2")},
           metadata : {Nil}] :
      SetClauses(p, 1) # <<>> }

UpdateFields == {"title", "description", "status", "priority", "due_date",
                 "parent_todo_id", "category_id", "metadata"}

Disjoint(p, q) == \A c \in UpdateFields : p[c] = Nil \/ q[c] = Nil

ConcStores ==
  { [i \in 1..n |-> IF i = 1 THEN StepRow(1, "u1", full, st)
                    ELSE StepRow(i, "u2", FALSE, StatusDraft)]
    : n \in 1..MaxTodos, full \in BOOLEAN, st \in Statuses }

ConcInit ==
  /\ store \in ConcStores
  /\ nextId = Cardinality(DOMAIN store) + 1
  /\ now = MaxTime
  /\ last = NoCall
  /\ req = NoReq
  /\ scan = NoScan
  /\ categories = <<>>
  /\ prev = <<>>
  /\ comments = <<>>
  /\ calls \in { << [payload |-> pq[1], done |-> FALSE, err |-> NoError],
                    [payload |-> pq[2], done |-> FALSE, err |-> NoError] >>
                 : pq \in {x \in ConcPayloads \X ConcPayloads :
                             Disjoint(x[1], x[2])} }

\* the store runs the UPDATE of one of the calls in flight
ConcUpdateTodo ==
  \E k \in DOMAIN calls :
    /\ ~calls[k].done
    /\ LET r == UpdateTodoOp(store, now, "u1", calls[k].payload)
       IN /\ store' = r.store
          /\ last' = Call("UpdateTodo", "u1", calls[k].payload.id, r)
          /\ req' = calls[k].payload
          /\ calls' = [calls EXCEPT ![k].done = TRUE, ![k].err = r.err]
    /\ UNCHANGED <<nextId, now, scan, comments, categories, prev>>

ConcNext == ConcUpdateTodo

SpecConc == ConcInit /\ [][ConcNext]_vars

(* ======================================================================= *)
(* Properties of the mutation writer                                       *)
(* ======================================================================= *)

\* the error kinds that report "no row for (id, owner)"
IsNotFound(e) == e \in {ErrNoRows, ErrNotFound}

Outcome(r) == [err |-> r.err, msg |-> r.msg, data |-> r.data]

IsEmptyUpdate(p) ==
  /\ p.title = Nil
  /\ p.description = Nil
  /\ p.status = Nil
  /\ p.priority = Nil
  /\ p.due_date = Nil
  /\ p.parent_todo_id = Nil
  /\ p.category_id = Nil
  /\ p.metadata = Nil

CompletedAtMatchesStatus(row) ==
  (row.completed_at # Nil) <=> (row.status = StatusCompleted)

\* C1: after any sequence of CreateTodo and UpdateTodo calls, every stored
\* todo (and every todo a call returns) has completed_at present if and only
\* if its status is completed.
C1_CompletedAtIffCompleted ==
  /\ \A i \in DOMAIN store : CompletedAtMatchesStatus(store[i])
  /\ (last.data # Nil => CompletedAtMatchesStatus(last.data[1]))

\* an update has just moved a todo to completed and stamped it
C1_Witness ==
  /\ last.op = "UpdateTodo"
  /\ last.err = NoError
  /\ last.data[1].status = StatusCompleted
  /\ last.data[1].completed_at # Nil
  /\ store[last.id] = last.data[1]

\* the four calls of owner b on todo i of another owner, against the same
\* calls on an id f that no todo has; notFound(p) says which update payloads
\* must end in a not-found failure
CrossOwnerIsolation(i, b, f, notFound(_)) ==
  LET g1 == GetTodoByIDOp(store, b, i)
      g2 == GetTodoByIDOp(store, b, f)
      c1 == CheckTodoExistsOp(store, b, i)
      c2 == CheckTodoExistsOp(store, b, f)
      d1 == DeleteTodoOp(store, b, i)
      d2 == DeleteTodoOp(store, b, f)
  IN /\ Outcome(g1) = Outcome(g2) /\ IsNotFound(g1.err) /\ g1.data = Nil
     /\ g1.store = store
     /\ Outcome(c1) = Outcome(c2) /\ IsNotFound(c1.err) /\ c1.data = Nil
     /\ c1.store = store
     /\ Outcome(d1) = Outcome(d2) /\ IsNotFound(d1.err) /\ d1.data = Nil
     /\ d1.store = store
     /\ \A p \in UpdatePayloads :
          LET u1 == UpdateTodoOp(store, now, b, [p EXCEPT !.id = i])
              u2 == UpdateTodoOp(store, now, b, [p EXCEPT !.id = f])
          IN /\ Outcome(u1) = Outcome(u2) /\ u1.err # NoError /\ u1.data = Nil
             /\ u1.store = store
             /\ IF notFound(p) THEN IsNotFound(u1.err)
                ELSE u1.err = ErrBadRequest

AlwaysNotFound(p) == TRUE

NotFoundUnlessEmpty(p) == ~IsEmptyUpdate(p)

\* C2 as stated: for a todo of owner A, GetTodoByID, CheckTodoExists,
\* UpdateTodo and DeleteTodo called by another owner B give the outcome of the
\* same call on an id that no todo has, a NotFound failure without data, and
\* leave the store unchanged.
C2_CrossOwnerAlwaysNotFound ==
  \A i \in DOMAIN store : \A b \in Users \ {store[i].user_id} :
    \A f \in AnyIDs \ DOMAIN store :
      CrossOwnerIsolation(i, b, f, AlwaysNotFound)

\* C2 amended: the same, except that an UpdateTodo whose payload has every
\* optional field absent ends, for both ids alike, in the validation error
\* "no fields to update" instead of NotFound.
C2_CrossOwnerIsolation ==
  \A i \in DOMAIN store : \A b \in Users \ {store[i].user_id} :
    \A f \in AnyIDs \ DOMAIN store :
      CrossOwnerIsolation(i, b, f, NotFoundUnlessEmpty)

\* another owner has just tried to set the status of an existing todo
C2_Witness ==
  /\ last.op = "UpdateTodo"
  /\ last.id \in DOMAIN store
  /\ store[last.id].user_id # last.user
  /\ last.err = ErrNoRows
  /\ last.data = Nil

\* C5: DeleteTodo on an (id, owner) that matches no todo fails with NotFound
\* "todo not found" and changes nothing; on a pair that matches it succeeds
\* and removes exactly that todo; an id once assigned and gone never comes
\* back, and GetTodoByID on it fails without data for every caller.
C5_DeleteThenNotFound ==
  [][ /\ (last'.op = "DeleteTodo" =>
            IF Matching(store, last'.user, last'.id) = {}
            THEN /\ last'.err = ErrNotFound
                 /\ last'.msg = "todo not found"
                 /\ store' = store
            ELSE /\ last'.err = NoError
                 /\ DOMAIN store' = DOMAIN store \ {last'.id}
                 /\ \A i \in DOMAIN store' : store'[i] = store[i])
      /\ (\A i \in 1..(nextId - 1) :
            i \notin DOMAIN store => i \notin DOMAIN store')
      /\ ((last'.op = "GetTodoByID" /\ last'.id \notin DOMAIN store') =>
            (IsNotFound(last'.err) /\ last'.data = Nil))
    ]_vars

\* a GetTodoByID by the former owner of a deleted todo, while another todo
\* is still stored
C5_Witness ==
  /\ last.op = "GetTodoByID"
  /\ last.id < nextId
  /\ last.id \notin DOMAIN store
  /\ DOMAIN store # {}
  /\ last.err = ErrNoRows

\* C3: UpdateTodo with every optional field absent fails with the validation
\* error "no fields to update", whether or not (id, owner) matches a todo,
\* returns no todo and changes no stored todo.
C3_EmptyUpdateRejected ==
  [][ (last'.op = "UpdateTodo" /\ IsEmptyUpdate(req')) =>
        /\ last'.err = ErrBadRequest
        /\ last'.msg = "no fields to update"
        /\ last'.data = Nil
        /\ store' = store
    ]_vars

\* an empty update was rejected for an (id, owner) that matches no todo
C3_Witness ==
  /\ last.op = "UpdateTodo"
  /\ IsEmptyUpdate(req)
  /\ Matching(store, last.user, last.id) = {}
  /\ last.err = ErrBadRequest

\* column c of the updated row is the payload's value when the payload has
\* one (opt: the column is nullable and holds the pointer) and the old value
\* otherwise
FieldApplied(old, new, p, c, opt) ==
  IF p[c] = Nil THEN new[c] = old[c]
  ELSE new[c] = (IF opt THEN p[c] ELSE p[c][1])

C6_CreateDefaults ==
  last.op = "CreateTodo" =>
    /\ last.err = NoError
    /\ last.data # Nil
    /\ last.id \in DOMAIN store
    /\ store[last.id] = last.data[1]
    /\ LET row == last.data[1]
       IN /\ row.status = StatusDraft
          /\ row.completed_at = Nil
          /\ row.user_id = last.user
          /\ row.priority = (IF req.priority = Nil THEN PriorityMedium
                             ELSE req.priority[1])
          /\ (req.description = Nil => row.description = Nil)
          /\ (req.due_date = Nil => row.due_date = Nil)
          /\ (req.parent_todo_id = Nil => row.parent_todo_id = Nil)
          /\ (req.category_id = Nil => row.category_id = Nil)

\* a todo created from a payload that carries a low priority and nothing else
C6_Witness ==
  /\ last.op = "CreateTodo"
  /\ req.priority = Ptr(PriorityLow)
  /\ req.description = Nil /\ req.due_date = Nil
  /\ req.parent_todo_id = Nil /\ req.category_id = Nil
  /\ last.data[1].priority = PriorityLow
  /\ last.data[1].status = StatusDraft
  /\ last.data[1].description = Nil

(* ======================================================================= *)
(* Properties of the listing reader                                        *)
(* ======================================================================= *)

Listed == last.op = "GetTodos" /\ last.err = NoError

Items == last.data.items

\* the todo satisfies each filter the query supplies
SatisfiesFilters(row, q) ==
  /\ q.status # Nil => row.status = q.status[1]
  /\ q.priority # Nil => row.priority = q.priority[1]
  /\ q.category_id # Nil => row.category_id = q.category_id
  /\ q.parent_todo_id # Nil => row.parent_todo_id = q.parent_todo_id
  /\ q.due_from # Nil =>
       IF row.due_date = Nil THEN FALSE ELSE row.due_date[1] >= q.due_from[1]
  /\ q.due_to # Nil =>
       IF row.due_date = Nil THEN FALSE ELSE row.due_date[1] <= q.due_to[1]
  /\ q.completed = Ptr(TRUE) => row.status = StatusCompleted
  /\ q.completed = Ptr(FALSE) => row.status # StatusCompleted

\* the todos of the caller that the query's constraints select
Selected(s, userID, q) ==
  {i \in DOMAIN s :
     /\ s[i].user_id = userID
     /\ SatisfiesFilters(s[i], q)
     /\ q.parent_todo_id = Nil => s[i].parent_todo_id = Nil}

\* the root todos of an owner
Roots(s, userID) ==
  {i \in DOMAIN s : s[i].user_id = userID /\ s[i].parent_todo_id = Nil}

Ceil(n, l) == IF n % l = 0 THEN n \div l ELSE n \div l + 1

\* C7: for an owner with N root todos and a limit L >= 1, with no mutation
\* between the calls, every call reports total = N and totalPages =
\* ceil(N/L), and once pages 1..totalPages have been read their data,
\* concatenated in order, holds each of the N todos exactly once, also when
\* several todos share a creation time.
C7_PagesCoverEveryTodoOnce ==
  scan.active =>
    LET roots == Roots(store, scan.user)
        N == Cardinality(roots)
    IN /\ last.total = N
       /\ last.totalPages = Ceil(N, scan.limit)
       /\ scan.page >= scan.totalPages =>
            /\ Len(scan.acc) = N
            /\ {scan.acc[k] : k \in 1..Len(scan.acc)} = roots

\* C8: a listing made without a parent filter holds only todos that have no
\* parent, and a todo that has a parent is listed only when the query names
\* that parent.
C8_DefaultListingRootOnly ==
  Listed =>
    \A k \in 1..Len(Items) :
      /\ req.parent_todo_id = Nil => Items[k].parent_todo_id = Nil
      /\ Items[k].parent_todo_id # Nil =>
           req.parent_todo_id = Items[k].parent_todo_id

\* a non-empty listing without a parent filter, by an owner who has a child
\* todo that every other filter of the query accepts
C8_Witness ==
  /\ Listed
  /\ req.parent_todo_id = Nil
  /\ Len(Items) > 0
  /\ \E i \in DOMAIN store :
       /\ store[i].user_id = last.user
       /\ store[i].parent_todo_id # Nil
       /\ SatisfiesFilters(store[i], req)

\* C9: every listed todo satisfies, at once, every filter the query supplies
\* (status, priority, category id, parent id, due-from, due-to, completed).
C9_FiltersConjoined ==
  Listed => \A k \in 1..Len(Items) : SatisfiesFilters(Items[k], req)

\* a non-empty listing under a status and a priority filter, while the owner
\* has a todo that passes the status filter and fails the priority filter
C9_Witness ==
  /\ Listed
  /\ req.status # Nil /\ req.priority # Nil /\ req.due_to # Nil
  /\ Len(Items) > 0
  /\ \E i \in DOMAIN store :
       /\ store[i].user_id = last.user
       /\ store[i].parent_todo_id = Nil
       /\ store[i].status = req.status[1]
       /\ store[i].priority # req.priority[1]

\* C10: a listing whose constraints select no todo does not fail: its data is
\* the empty sequence, not null, its total is 0 and its totalPages is 0,
\* whatever the limit.
C10_EmptyMatchIsEmptyPage ==
  (last.op = "GetTodos" /\ Selected(store, last.user, req) = {}) =>
    /\ last.err = NoError
    /\ ~last.data.null
    /\ last.data.items = <<>>
    /\ last.total = 0
    /\ last.totalPages = 0

\* a listing with a limit above 1 that selects nothing although the owner has
\* todos
C10_Witness ==
  /\ last.op = "GetTodos"
  /\ Selected(store, last.user, req) = {}
  /\ Roots(store, last.user) # {}
  /\ req.limit > 1
  /\ last.total = 0
  /\ last.data.items = <<>>

\* C11: a GetTodos call whose sort field is outside the allow-list fails
\* before any statement is sent to the store, and the field never becomes
\* part of the ORDER BY text.
C11_SortOutsideAllowListRejected ==
  (last.op = "GetTodos" /\ req.sort # Nil /\ req.sort[1] \notin SortAllowList)
    => /\ last.err # NoError
       /\ last.queries = 0
       /\ last.orderBy # req.sort[1]

\* C15: a GetTodos call with limit 0 returns an error to its caller: it
\* neither panics nor returns a page.
C15_LimitZeroFailsFast ==
  (last.op = "GetTodos" /\ req.limit = 0)
    => last.err \notin {NoError, ErrPanic}

(* ======================================================================= *)
(* Properties of calls under a context, of the error kinds and of the      *)
(* statistics                                                              *)
(* ======================================================================= *)

\* the call returned no result: a nil pointer
NoResult(c) == IF c.op = "GetTodos" THEN c.data.null ELSE c.data = Nil

\* C12: every operation called with an already-cancelled context returns an
\* error and no result, and leaves the stored todos, and every field of
\* each, as they were.
C12_CancelledContextNoEffect ==
  [][(last'.op # "none" /\ last'.ctx = "cancelled")
       => /\ last'.err # NoError
          /\ NoResult(last')
          /\ store' = store]_vars

\* a DeleteTodo under a cancelled context that names a todo of the caller,
\* which is still stored
C12_Witness ==
  /\ last.op = "DeleteTodo"
  /\ last.ctx = "cancelled"
  /\ last.err = ErrCanceled
  /\ Matching(store, last.user, last.id) # {}

IsValidation(e) == e = ErrBadRequest

IsStoreError(e) == e \in {ErrCanceled, ErrSQL}

\* C13: GetTodoByID, CheckTodoExists and UpdateTodo with a non-empty payload,
\* called for an (id, owner) that matches no row, fail with an error of the
\* NotFound kind; an empty update fails with a validation error and a failed
\* store interaction with a store error, and no error is of two of the
\* three kinds.
C13_NotFoundKindDistinct ==
  (last.op \in {"GetTodoByID", "CheckTodoExists", "UpdateTodo"}) =>
    LET empty == IF last.op = "UpdateTodo" THEN IsEmptyUpdate(req) ELSE FALSE
        miss == Matching(store, last.user, last.id) = {}
        e == last.err
    IN /\ (last.ctx = "live" /\ ~empty /\ miss) =>
            (IsNotFound(e) /\ ~IsValidation(e) /\ ~IsStoreError(e))
       /\ empty => (IsValidation(e) /\ ~IsNotFound(e) /\ ~IsStoreError(e))
       /\ (last.ctx = "cancelled" /\ ~empty) =>
            (IsStoreError(e) /\ ~IsNotFound(e) /\ ~IsValidation(e))

\* a GetTodoByID under a live context for a todo that another owner holds
C13_Witness ==
  /\ last.op = "GetTodoByID"
  /\ last.ctx = "live"
  /\ last.id \in DOMAIN store
  /\ store[last.id].user_id # last.user
  /\ last.err = ErrNoRows

\* C14: GetTodoStats returns, for an owner, the number of the owner's todos,
\* the number of them in each of the four statuses, and the number of them
\* whose due date is before the store's now and whose status is not
\* completed; for an owner without todos it succeeds with six zeros.
C14_StatsCounts ==
  (last.op = "GetTodoStats" /\ last.ctx = "live") =>
    LET mine == {i \in DOMAIN store : store[i].user_id = last.user}
        n(st) == Cardinality({i \in mine : store[i].status = st})
        late == {i \in mine : /\ store[i].due_date # Nil
                              /\ store[i].due_date[1] < now
                              /\ store[i].status # StatusCompleted}
    IN /\ last.err = NoError
       /\ last.data = Ptr([total     |-> Cardinality(mine),
                           draft     |-> n(StatusDraft),
                           active    |-> n(StatusActive),
                           completed |-> n(StatusCompleted),
                           archived  |-> n(StatusArchived),
                           overdue   |-> Cardinality(late)])

\* the statistics of an owner of two todos with a past due date, one of them
\* completed and the other not
C14_Witness ==
  /\ last.op = "GetTodoStats"
  /\ last.ctx = "live"
  /\ last.data # Nil
  /\ last.data[1].total = 2
  /\ last.data[1].completed = 1
  /\ last.data[1].overdue = 1
  /\ \A i \in DOMAIN store :
       store[i].user_id = last.user => store[i].due_date = Ptr(1)
  /\ now > 1

TakesTodoID(op) ==
  op \in {"GetTodoByID", "CheckTodoExists", "UpdateTodo", "DeleteTodo"}

\* C20: every error a repository operation returns after a failed or an
\* empty store interaction carries the owner id, and the todo id when the
\* operation takes one.
C20_ErrorsCarryContext ==
  (last.op # "none" /\ (IsNotFound(last.err) \/ IsStoreError(last.err))) =>
    /\ "user_id" \in last.args
    /\ TakesTodoID(last.op) => "todo_id" \in last.args

\* term occurs in text as a substring, letter case ignored
Contains(text, term) ==
  \E o \in 0..Len(text) :
    /\ o + Len(term) <= Len(text)
    /\ \A k \in 1..Len(term) : Lower(text[o + k]) = Lower(term[k])

\* C16: a GetTodos call with a search term lists only todos whose title or
\* description contains the term as a case-insensitive substring, also when
\* the term contains one of the pattern characters % and _.
C16_SearchIsSubstringMatch ==
  (Listed /\ req.search # Nil) =>
    \A k \in 1..Len(Items) :
      \/ Contains(Items[k].title, req.search[1])
      \/ IF Items[k].description = Nil THEN FALSE
         ELSE Contains(Items[k].description[1], req.search[1])

(* ======================================================================= *)
(* Properties of the aggregation reader                                    *)
(* ======================================================================= *)

\* the PopulatedTodo values the latest call returned
Returned ==
  IF last.err # NoError THEN <<>>
  ELSE IF last.op = "GetTodoByID" THEN last.data
  ELSE IF last.op = "GetTodos" THEN last.data.items
  ELSE <<>>

\* list holds each member of ids exactly once, as rows with that id
HoldsEachOnce(list, ids) ==
  /\ ~list.null
  /\ Len(list.items) = Cardinality(ids)
  /\ {list.items[k].id : k \in 1..Len(list.items)} = ids

\* C17: in every PopulatedTodo that GetTodoByID or GetTodos returns, children
\* holds each direct child of the todo exactly once, ordered by sort_order
\* and then creation time, ascending; comments holds each comment on the
\* todo exactly once, ordered by creation time, ascending; a todo without
\* children or without comments has the empty sequence there, not null.
C17_ChildrenAndCommentsOnce ==
  \A n \in 1..Len(Returned) :
    LET pt == Returned[n]
        kids == {i \in DOMAIN store : store[i].parent_todo_id = Ptr(pt.todo.id)}
        coms == {j \in DOMAIN comments : comments[j].todo_id = pt.todo.id}
        cs == pt.children.items
        ms == pt.comments.items
    IN /\ HoldsEachOnce(pt.children, kids)
       /\ HoldsEachOnce(pt.comments, coms)
       /\ \A i, j \in 1..Len(cs) :
            i < j => \/ cs[i].sort_order < cs[j].sort_order
                     \/ /\ cs[i].sort_order = cs[j].sort_order
                        /\ cs[i].created_at <= cs[j].created_at
       /\ \A i, j \in 1..Len(ms) : i < j => ms[i].created_at <= ms[j].created_at

(* ======================================================================= *)
(* Properties of calls in flight together                                  *)
(* ======================================================================= *)

\* C18: the total and the data of a GetTodos call describe one state of the
\* store: whatever CreateTodo and DeleteTodo calls of other callers run
\* while the call is in flight, the total it returns is the number of
\* matching todos in the state its data was read from.
C18_ListingIsAtomic ==
  Listed => last.total = Cardinality(Selected(store, last.user, req))

\* the final row carries every value the payload supplies
Carries(row, p) ==
  /\ p.title # Nil => row.title = p.title[1]
  /\ p.description # Nil => row.description = p.description
  /\ p.status # Nil => row.status = p.status[1]
  /\ p.priority # Nil => row.priority = p.priority[1]
  /\ p.due_date # Nil => row.due_date = p.due_date
  /\ p.parent_todo_id # Nil => row.parent_todo_id = p.parent_todo_id
  /\ p.category_id # Nil => row.category_id = p.category_id
  /\ p.metadata # Nil => row.metadata = p.metadata

BothDone == calls # <<>> /\ \A k \in DOMAIN calls : calls[k].done

\* C19: two UpdateTodo calls of one owner on one todo, in flight together,
\* whose payloads set disjoint fields: both succeed, and in either order the
\* stored row ends with the values of both.
C19_DisjointUpdatesCompose ==
  /\ \A k \in DOMAIN calls : calls[k].done => calls[k].err = NoError
  /\ BothDone => \A k \in DOMAIN calls : Carries(store[1], calls[k].payload)

\* both calls have returned, the second call's UPDATE ran first, one of them
\* completed the todo and the other gave it a title
C19_Witness ==
  /\ BothDone
  /\ req = calls[1].payload
  /\ calls[1].payload.status = Ptr(StatusCompleted)
  /\ calls[2].payload.title = Ptr(<<"b">>)
  /\ store[1].status = StatusCompleted
  /\ store[1].completed_at # Nil
  /\ store[1].title = <<"b">>

(* ======================================================================= *)
(* Properties of the listing's count                                       *)
(* ======================================================================= *)

\* C21: in every GetTodos result, total is the number of the owner's todos
\* that satisfy the query's constraints, whatever the page and the limit
\* (>= 1), a page past the last one with empty data included, and
\* totalPages is the ceiling of total / limit.
C21_TotalIsMatchCount ==
  last.op = "GetTodos" =>
    /\ last.err = NoError
    /\ last.total = Cardinality(Selected(store, last.user, req))
    /\ last.totalPages = Ceil(last.total, req.limit)
    /\ last.page = req.page
    /\ last.limit = req.limit

\* a page past the last one: its data is empty and its total is still the
\* number of matching todos
C21_Witness ==
  /\ Listed
  /\ req.page > 1
  /\ (req.page - 1) * req.limit >= last.total
  /\ Items = <<>>
  /\ last.total > 0
  /\ last.total = Cardinality(Selected(store, last.user, req))
  /\ last.totalPages = 1

(* ======================================================================= *)
(* SpecOverdue: one GetTodos call with the overdue and the completed flag, *)
(* on stores whose todos are due before the store's now, due at it, or     *)
(* have no due date.                                                       *)
(* ======================================================================= *)

OverdueShapes ==
  { [user_id |-> u, status |-> st, priority |-> PriorityMedium,
     category_id |-> Nil, due_date |-> d, child |-> FALSE, created_at |-> 1]
    : u \in {"u1"}, st \in {StatusDraft, StatusCompleted},
      d \in {Nil, Ptr(1), Ptr(MaxTime)} }
  \cup
  { [user_id |-> "u2", status |-> StatusActive, priority |-> PriorityMedium,
     category_id |-> Nil, due_date |-> Ptr(1), child |-> FALSE,
     created_at |-> 1] }

OverdueStores ==
  UNION { [1..n -> OverdueShapes] : n \in 0..MaxTodos }

OverdueQueries ==
  { [NoFilters(1, l) EXCEPT !.overdue = o, !.completed = c]
    : l \in 1..MaxTodos,
      o \in {Nil, Ptr(TRUE), Ptr(FALSE)},
      c \in {Nil, Ptr(TRUE), Ptr(FALSE)} }

OverdueInit ==
  /\ store \in { [i \in DOMAIN f |-> ListRow(i, f[i])] : f \in OverdueStores }
  /\ nextId = Cardinality(DOMAIN store) + 1
  /\ now = MaxTime
  /\ last = NoCall
  /\ req = NoReq
  /\ scan = NoScan
  /\ categories = <<>>
  /\ prev = <<>>
  /\ comments = <<>>
  /\ calls = <<>>

GetTodosOverdue ==
  /\ last.op = "none"
  /\ \E u \in Users, q \in OverdueQueries :
       \E r \in GetTodosResults(store, now, u, q) :
         /\ last' = ListCall(u, r)
         /\ req' = q
         /\ UNCHANGED <<store, nextId, now, scan, comments, calls,
                        categories, prev>>

OverdueNext == GetTodosOverdue

SpecOverdue == OverdueInit /\ [][OverdueNext]_vars

(* ======================================================================= *)
(* Properties of the overdue flag                                          *)
(* ======================================================================= *)

\* due before the store's now and not completed
OverdueAt(row, t) ==
  /\ row.due_date # Nil
  /\ row.due_date[1] < t
  /\ row.status # StatusCompleted

\* C22: a GetTodos call with overdue = true does not fail, whatever the
\* completed flag, and returns only todos whose due date is before the
\* store's now and whose status is not completed; the completed flag
\* constrains the result as it does without the overdue flag, so the listing
\* counts exactly the owner's root todos that pass both.
C22_OverdueIndependentOfCompleted ==
  (last.op = "GetTodos" /\ req.overdue = Ptr(TRUE)) =>
    /\ last.err = NoError
    /\ \A k \in 1..Len(Items) :
         /\ OverdueAt(Items[k], now)
         /\ SatisfiesFilters(Items[k], req)
    /\ last.total =
         Cardinality({i \in Selected(store, last.user, req) :
                        OverdueAt(store[i], now)})

\* an overdue listing with completed = false that returns a todo while the
\* owner also has a completed todo whose due date has passed
C22_Witness ==
  /\ Listed
  /\ req.overdue = Ptr(TRUE)
  /\ req.completed = Ptr(FALSE)
  /\ Len(Items) > 0
  /\ \E i \in DOMAIN store :
       /\ store[i].user_id = last.user
       /\ store[i].due_date = Ptr(1)
       /\ store[i].status = StatusCompleted

\* an overdue listing with completed = true: the two constraints exclude
\* each other, and the call returns an empty page instead of failing
C22_WitnessBothFlags ==
  /\ Listed
  /\ req.overdue = Ptr(TRUE)
  /\ req.completed = Ptr(TRUE)
  /\ Items = <<>>
  /\ last.total = 0
  /\ \E i \in DOMAIN store :
       store[i].user_id = last.user /\ OverdueAt(store[i], now)

(* ======================================================================= *)
(* Properties of the listing's order                                       *)
(* ======================================================================= *)

\* the value of a column in a row, absent for NULL
ColumnValue(row, col) ==
  CASE col = "created_at" -> Ptr(row.created_at)
    [] col = "id" -> Ptr(row.id)
    [] col = "due_date" -> row.due_date

\* no row of the page with a value comes after a row whose value it must
\* precede
SortedBy(items, col, descending) ==
  \A i, j \in 1..Len(items) :
    (/\ i < j
     /\ ColumnValue(items[i], col) # Nil
     /\ ColumnValue(items[j], col) # Nil) =>
      IF descending
      THEN ColumnValue(items[i], col)[1] >= ColumnValue(items[j], col)[1]
      ELSE ColumnValue(items[i], col)[1] <= ColumnValue(items[j], col)[1]

\* C23: the rows of a GetTodos page are ordered by creation time descending
\* when the query gives no sort field; when it gives one, by that field,
\* ascending unless the order parameter is exactly "desc", and descending
\* then.
C23_OrderOfListing ==
  Listed =>
    IF req.sort = Nil
    THEN SortedBy(Items, "created_at", TRUE)
    ELSE SortedBy(Items, req.sort[1], req.order = Ptr("desc"))

\* a page of two todos with different due dates, sorted by due date with
\* order "desc": the later due date comes first
C23_Witness ==
  /\ Listed
  /\ req.sort = Ptr("due_date")
  /\ req.order = Ptr("desc")
  /\ Len(Items) = 2
  /\ Items[1].due_date # Nil /\ Items[2].due_date # Nil
  /\ Items[1].due_date[1] > Items[2].due_date[1]

\* an order parameter that is not exactly "desc" sorts ascending
C23_WitnessNotExactlyDesc ==
  /\ Listed
  /\ req.sort = Ptr("due_date")
  /\ req.order = Ptr("DESC")
  /\ Len(Items) = 2
  /\ Items[1].due_date # Nil /\ Items[2].due_date # Nil
  /\ Items[1].due_date[1] < Items[2].due_date[1]

\* no sort field: the todo created last comes first, whatever the order
\* parameter
C23_WitnessDefaultOrder ==
  /\ Listed
  /\ req.sort = Nil
  /\ req.order = Ptr("asc")
  /\ Len(Items) = 2
  /\ Items[1].created_at > Items[2].created_at

(* ======================================================================= *)
(* SpecJoin: one read by one of two owners on a store in which todos,      *)
(* child todos, comments and the category belong to either owner, and a    *)
(* todo's category reference may name a category of its owner, a category *)
(* of the other owner, or no row of todo_categories.                       *)
(* ======================================================================= *)

JoinRow(id, userID, parent, category) ==
  [id             |-> id,
   user_id        |-> userID,
   title          |-> <<"a">>,
   description    |-> Nil,
   status         |-> StatusDraft,
   priority       |-> PriorityMedium,
   due_date       |-> Nil,
   completed_at   |-> Nil,
   parent_todo_id |-> parent,
   category_id    |-> category,
   metadata       |-> Nil,
   sort_order     |-> 0,
   created_at     |-> id]

\* todo 1 is a root todo; each later todo is a root todo or a child of todo 1
JoinStores ==
  UNION {
    { [i \in 1..n |-> JoinRow(i, u[i], IF i = 1 THEN Nil ELSE pa[i], ca[i])]
      : u \in [1..n -> Users],
        pa \in [1..n -> {Nil, Ptr(1)}],
        ca \in [1..n -> {Nil} \cup {Ptr(c) : c \in Categories}] }
    : n \in 1..MaxTodos }

\* comments on todo 1, written by either owner one after the other
JoinComments ==
  UNION {
    { [j \in 1..m |-> [id |-> j, todo_id |-> 1, user_id |-> u[j],
                       created_at |-> j]]
      : u \in [1..m -> Users] }
    : m \in 0..MaxComments }

\* table todo_categories: without a row, or with each category id owned by
\* one of the owners
JoinCategories ==
  { <<>> } \cup
  { [c \in Categories |-> [id |-> c, user_id |-> u[c], name |-> <<"w">>]]
    : u \in [Categories -> Users] }

JoinInit ==
  /\ store \in JoinStores
  /\ nextId = Cardinality(DOMAIN store) + 1
  /\ now = MaxTime
  /\ last = NoCall
  /\ req = NoReq
  /\ scan = NoScan
  /\ categories \in JoinCategories
  /\ prev = <<>>
  /\ comments \in JoinComments
  /\ calls = <<>>

JoinGetTodoStats ==
  /\ last.op = "none"
  /\ \E u \in Users :
       /\ last' = Call("GetTodoStats", u, 0, GetTodoStatsOp(store, now, u))
       /\ UNCHANGED <<store, nextId, now, req, scan, comments, calls,
                      categories, prev>>

JoinNext ==
  \/ AggGetTodoByID
  \/ AggGetTodos
  \/ JoinGetTodoStats

SpecJoin == JoinInit /\ [][JoinNext]_vars

(* ======================================================================= *)
(* Properties of the embedded category                                     *)
(* ======================================================================= *)

\* the category a todo's reference resolves to for an owner: the row of
\* todo_categories with that id when there is one and the owner owns it
Resolved(ref, userID) ==
  IF ref = Nil THEN Nil
  ELSE IF ref[1] \notin DOMAIN categories THEN Nil
  ELSE IF categories[ref[1]].user_id # userID THEN Nil
  ELSE Ptr(categories[ref[1]])

\* C24: in every PopulatedTodo that GetTodoByID or GetTodos returns, category
\* is the todo's category when the todo's category reference resolves to an
\* existing category of the caller, and null otherwise; a reference to a
\* missing category or to another owner's category neither makes the call
\* fail nor drops the todo from the result.
C24_CategoryResolvedOrNull ==
  /\ \A n \in 1..Len(Returned) :
       Returned[n].category =
         Resolved(Returned[n].todo.category_id, last.user)
  /\ (/\ last.op = "GetTodoByID"
      /\ Matching(store, last.user, last.id) # {}) =>
       /\ last.err = NoError
       /\ last.data[1].todo = store[last.id]
  /\ last.op = "GetTodos" =>
       /\ last.err = NoError
       /\ {last.data.items[k].todo.id : k \in 1..Len(last.data.items)}
            = Roots(store, last.user)

\* GetTodoByID returns a todo whose category reference names a category of
\* the other owner: the todo is returned, with category null
C24_Witness ==
  /\ last.op = "GetTodoByID"
  /\ last.err = NoError
  /\ last.data[1].todo.category_id # Nil
  /\ last.data[1].todo.category_id[1] \in DOMAIN categories
  /\ categories[last.data[1].todo.category_id[1]].user_id # last.user
  /\ last.data[1].category = Nil

\* GetTodos lists a todo whose category reference names no row of
\* todo_categories, with category null
C24_WitnessMissingCategory ==
  /\ last.op = "GetTodos"
  /\ last.err = NoError
  /\ \E k \in 1..Len(last.data.items) :
       /\ last.data.items[k].todo.category_id # Nil
       /\ last.data.items[k].todo.category_id[1] \notin DOMAIN categories
       /\ last.data.items[k].category = Nil

\* GetTodos lists a todo with its own category embedded
C24_WitnessOwnCategory ==
  /\ last.op = "GetTodos"
  /\ last.err = NoError
  /\ \E k \in 1..Len(last.data.items) :
       /\ last.data.items[k].category # Nil
       /\ last.data.items[k].category[1].user_id = last.user
       /\ Ptr(last.data.items[k].category[1].id)
            = last.data.items[k].todo.category_id

(* ======================================================================= *)
(* SpecHist: one UpdateTodo on a store of StepStores, with the rows before *)
(* the call kept in prev.                                                  *)
(* ======================================================================= *)

HistPayloads ==
  [id : AnyIDs,
   title : {Nil},
   description : {Nil, Ptr(<<"e">>)},
   status : {Nil} \cup {Ptr(x) : x \in Statuses},
   priority : {Nil},
   due_date : {Nil, Ptr(MaxTime)},
   parent_todo_id : {Nil, Ptr(1)},
   category_id : {Nil, Ptr("c2")},
   metadata : {Nil, Ptr("n")}]

HistUpdateTodo ==
  /\ last.op = "none"
  /\ \E u \in Users, p \in HistPayloads :
    /\ ParentExists(store, p)
    /\ LET r == UpdateTodoOp(store, now, u, p)
       IN /\ store' = r.store
          /\ last' = Call("UpdateTodo", u, p.id, r)
    /\ req' = p
    /\ prev' = store
    /\ UNCHANGED <<nextId, now, scan, comments, calls, categories>>

HistNext == HistUpdateTodo

SpecHist == StepInit /\ [][HistNext]_vars

(* ======================================================================= *)
(* Properties of the hierarchy and of the writer's fields                  *)
(* ======================================================================= *)

\* C25: after any sequence of CreateTodo and UpdateTodo calls the hierarchy
\* of todos has one level: no todo is its own parent, and the parent of a
\* todo has no parent itself.
C25_HierarchyHasOneLevel ==
  \A i \in DOMAIN store :
    /\ store[i].parent_todo_id # Ptr(i)
    /\ (/\ store[i].parent_todo_id # Nil
        /\ store[i].parent_todo_id[1] \in DOMAIN store) =>
         store[store[i].parent_todo_id[1]].parent_todo_id = Nil

\* C26: UpdateTodo restricts no status transition: an UpdateTodo that sets
\* the status of an existing todo of the caller to any of the four values
\* succeeds whatever the status of the todo was, and leaves the todo with
\* the status set; in every state each of the four values can be set on
\* each todo.
C26_NoStatusTransitionRestricted ==
  /\ (/\ last.op = "UpdateTodo"
      /\ req.status # Nil
      /\ Matching(prev, last.user, req.id) # {}) =>
       /\ last.err = NoError
       /\ last.data[1].status = req.status[1]
       /\ store[req.id].status = req.status[1]
  /\ \A i \in DOMAIN store, st \in Statuses :
       LET r == UpdateTodoOp(store, now, store[i].user_id,
                             [EmptyUpdate(i) EXCEPT !.status = Ptr(st)])
       IN r.err = NoError /\ r.store[i].status = st

\* an update that took an archived todo back to draft
C26_Witness ==
  /\ last.op = "UpdateTodo"
  /\ last.err = NoError
  /\ req.id \in DOMAIN prev
  /\ prev[req.id].status = StatusArchived
  /\ req.status = Ptr(StatusDraft)
  /\ store[req.id].status = StatusDraft

\* an update that took a completed todo to active
C26_WitnessFromCompleted ==
  /\ last.op = "UpdateTodo"
  /\ last.err = NoError
  /\ req.id \in DOMAIN prev
  /\ prev[req.id].status = StatusCompleted
  /\ req.status = Ptr(StatusActive)
  /\ store[req.id].status = StatusActive

\* the optional fields of a todo that a payload can set
OptionalFields ==
  {"description", "due_date", "parent_todo_id", "category_id", "metadata"}

\* C27: UpdateTodo never clears an optional field: a description, due date,
\* parent, category or metadata that a todo has before the call is present
\* after it, and is unchanged when the payload leaves the field absent;
\* completed_at is the only field an update returns to absent.
C27_UpdateNeverClearsOptionalField ==
  last.op = "UpdateTodo" =>
    /\ DOMAIN store = DOMAIN prev
    /\ \A i \in DOMAIN prev, f \in OptionalFields :
         /\ prev[i][f] # Nil => store[i][f] # Nil
         /\ req[f] = Nil => store[i][f] = prev[i][f]

\* an update of a completed todo with a description and a due date: it sets
\* another due date, returns completed_at to absent and keeps the description
C27_Witness ==
  /\ last.op = "UpdateTodo"
  /\ last.err = NoError
  /\ req.id \in DOMAIN prev
  /\ prev[req.id].completed_at # Nil
  /\ store[req.id].completed_at = Nil
  /\ prev[req.id].description # Nil
  /\ req.description = Nil
  /\ store[req.id].description = prev[req.id].description
  /\ prev[req.id].due_date # Nil
  /\ req.due_date # Nil
  /\ store[req.id].due_date = req.due_date

(* ======================================================================= *)
(* SpecStats: one GetTodoStats call on stores whose todos have any of the  *)
(* four statuses, a past due date or none, and are root todos or children  *)
(* of todo 1.                                                              *)
(* ======================================================================= *)

StatsShapes ==
  { [user_id |-> "u1", status |-> st, priority |-> PriorityMedium,
     category_id |-> Nil, due_date |-> d, child |-> ch, created_at |-> 1]
    : st \in Statuses, d \in {Nil, Ptr(1)}, ch \in BOOLEAN }
  \cup
  { [user_id |-> "u2", status |-> StatusActive, priority |-> PriorityMedium,
     category_id |-> Nil, due_date |-> Ptr(1), child |-> FALSE,
     created_at |-> 1] }

StatsStores ==
  UNION {
    { [i \in 1..n |-> ListRow(i, shapes[i])]
      : shapes \in {f \in [1..n -> StatsShapes] :
                      \A i \in 1..n : f[i].child => i > 1} }
    : n \in 0..MaxTodos }

StatsInit ==
  /\ store \in StatsStores
  /\ nextId = Cardinality(DOMAIN store) + 1
  /\ now = MaxTime
  /\ last = NoCall
  /\ req = NoReq
  /\ scan = NoScan
  /\ categories = <<>>
  /\ prev = <<>>
  /\ comments = <<>>
  /\ calls = <<>>

StatsGetTodoStats ==
  /\ last.op = "none"
  /\ \E u \in Users :
       /\ last' = Call("GetTodoStats", u, 0, GetTodoStatsOp(store, now, u))
       /\ UNCHANGED <<store, nextId, now, req, scan, comments, calls,
                      categories, prev>>

StatsNext == StatsGetTodoStats

SpecStats == StatsInit /\ [][StatsNext]_vars

(* ======================================================================= *)
(* Properties of the statistics' counts                                    *)
(* ======================================================================= *)

\* the child todos of an owner
Children(s, userID) ==
  {i \in DOMAIN s : s[i].user_id = userID /\ s[i].parent_todo_id # Nil}

\* C28: in every GetTodoStats result total = draft + active + completed +
\* archived and overdue <= total - completed; the counts cover child todos
\* as well as root todos, so total exceeds the total of the unfiltered
\* GetTodos of the same owner by the number of the owner's child todos.
C28_StatsCountsAddUp ==
  last.op = "GetTodoStats" =>
    /\ last.err = NoError
    /\ last.data[1].total =
         last.data[1].draft + last.data[1].active
         + last.data[1].completed + last.data[1].archived
    /\ last.data[1].overdue <= last.data[1].total - last.data[1].completed
    /\ last.data[1].total =
         CountQuery(store, now, last.user, NoFilters(1, 1))
         + Cardinality(Children(store, last.user))

\* the statistics of an owner with an archived root todo and a completed
\* child todo: total is 2 while the unfiltered listing counts 1
C28_Witness ==
  /\ last.op = "GetTodoStats"
  /\ last.err = NoError
  /\ last.data[1].total = 2
  /\ last.data[1].archived = 1
  /\ last.data[1].completed = 1
  /\ CountQuery(store, now, last.user, NoFilters(1, 1)) = 1
  /\ \E i \in Children(store, last.user) :
       store[i].status = StatusCompleted

(* ======================================================================= *)
(* SpecStatusRace: two UpdateTodo calls of one owner that both set the     *)
(* status of todo 1, in flight together; the store runs their UPDATE       *)
(* statements one after the other, in either order.                        *)
(* ======================================================================= *)

StatusPayloads ==
  { [EmptyUpdate(1) EXCEPT !.status = Ptr(st), !.title = ti]
    : st \in Statuses, ti \in {Nil, Ptr(<<"b">>)} }

StatusRaceInit ==
  /\ store \in ConcStores
  /\ nextId = Cardinality(DOMAIN store) + 1
  /\ now = MaxTime
  /\ last = NoCall
  /\ req = NoReq
  /\ scan = NoScan
  /\ categories = <<>>
  /\ prev = <<>>
  /\ comments = <<>>
  /\ calls \in { << [payload |-> p, done |-> FALSE, err |-> NoError],
                    [payload |-> q, done |-> FALSE, err |-> NoError] >>
                 : p \in StatusPayloads, q \in StatusPayloads }

SpecStatusRace == StatusRaceInit /\ [][ConcNext]_vars

(* ======================================================================= *)
(* Properties of concurrent status updates                                 *)
(* ======================================================================= *)

\* C29: under any interleaving of concurrent UpdateTodo calls that set the
\* status of the same todo, each call writes status and completed_at in one
\* store write, so in no reachable state, and in no row a call returns, is
\* the status completed with completed_at absent, or completed_at present
\* with a status other than completed.
C29_StatusAndCompletedAtTogether ==
  /\ \A i \in DOMAIN store :
       /\ ~(store[i].status = StatusCompleted /\ store[i].completed_at = Nil)
       /\ ~(store[i].status # StatusCompleted /\ store[i].completed_at # Nil)
  /\ (last.op = "UpdateTodo" /\ last.err = NoError) =>
       /\ (last.data[1].status = StatusCompleted)
            = (last.data[1].completed_at # Nil)
       /\ last.data[1].status = req.status[1]

\* both calls have returned: one completed the todo, the other then made it
\* active, and the completion timestamp is gone with the status
C29_Witness ==
  /\ BothDone
  /\ calls[1].payload.status = Ptr(StatusCompleted)
  /\ calls[2].payload.status = Ptr(StatusActive)
  /\ calls[1].err = NoError /\ calls[2].err = NoError
  /\ store[1].status = StatusActive
  /\ store[1].completed_at = Nil

\* both calls have returned: one made the todo active, the other then
\* completed it, and the row carries the completion timestamp
C29_WitnessCompletedLast ==
  /\ BothDone
  /\ calls[1].payload.status = Ptr(StatusCompleted)
  /\ calls[2].payload.status = Ptr(StatusActive)
  /\ store[1].status = StatusCompleted
  /\ store[1].completed_at = Ptr(now)

(* ======================================================================= *)
(* Properties of the readers' dependence on other owners' rows             *)
(* ======================================================================= *)

\* the rows of a table that an owner owns
OwnRows(table, userID) ==
  [i \in {j \in DOMAIN table : table[j].user_id = userID} |-> table[i]]

\* C30: the results of GetTodos and GetTodoStats for an owner depend only on
\* that owner's rows: the call's result on the store is a result of the same
\* call on the store without the todos, categories and comments of every
\* other owner, and the two stores admit the same results (data with
\* embedded children, comments and category, total, counts).  Two stores
\* that agree on the owner's rows therefore give the same results.
C30_ReadersSeeOwnRowsOnly ==
  /\ last.op = "GetTodos" =>
       LET own == GetTodosPopulated(OwnRows(store, last.user),
                                    OwnRows(comments, last.user),
                                    OwnRows(categories, last.user),
                                    now, last.user, req)
       IN /\ last \in {ListCall(last.user, r) : r \in own}
          /\ own = GetTodosPopulated(store, comments, categories, now,
                                     last.user, req)
  /\ last.op = "GetTodoStats" =>
       LET own == GetTodoStatsOp(OwnRows(store, last.user), now, last.user)
       IN /\ last.err = own.err
          /\ last.data = own.data
          /\ own.data = GetTodoStatsOp(store, now, last.user).data

\* GetTodos lists todo 1 of the caller while another owner has a child todo
\* of it, a comment on it and the category it refers to: the todo comes
\* without children, comments and category, and the total is 1 in a store
\* of two todos
C30_Witness ==
  /\ Listed
  /\ Len(Items) = 1
  /\ last.total = 1
  /\ Items[1].todo.id = 1
  /\ \E i \in DOMAIN store :
       /\ store[i].user_id # last.user
       /\ store[i].parent_todo_id = Ptr(1)
  /\ \E j \in DOMAIN comments :
       /\ comments[j].user_id # last.user
       /\ comments[j].todo_id = 1
  /\ Items[1].todo.category_id # Nil
  /\ Items[1].todo.category_id[1] \in DOMAIN categories
  /\ categories[Items[1].todo.category_id[1]].user_id # last.user
  /\ Items[1].children.items = <<>>
  /\ Items[1].comments.items = <<>>
  /\ Items[1].category = Nil

\* GetTodoStats counts one todo for the caller in a store of two todos
C30_WitnessStats ==
  /\ last.op = "GetTodoStats"
  /\ last.err = NoError
  /\ last.data[1].total = 1
  /\ Cardinality(DOMAIN store) = 2

====
